---- MODULE Spec2Model ----
(***************************************************************************)
(* xk6-external-js: the host-side dispatcher ExternalJS.Run (src/main.go). *)
(* Go strings are TLA+ strings, read character by character with SubSeq;   *)
(* Go interface{} values are tagged records.  Loops over a string are      *)
(* recursive functions of the position, so that TLC evaluates their        *)
(* arguments once.                                                         *)
(***************************************************************************)
EXTENDS Integers, Sequences, FiniteSets, TLC

VARIABLES
    pc,          \* position of the one Run call of this dispatcher
    flowPath,    \* Run's first argument
    arg,         \* Run's second argument (payloadOrOptions)
    hasState,    \* j.vu.State() != nil
    opts,        \* *RunOptions, mutated in place as Run does
    ctxErr,      \* ctx.Err(): "nil", "DeadlineExceeded" or "Canceled"
    hasDeadline, \* context.WithTimeout was applied and its timer is armed
    proc,        \* the child process: "none", "running", "exited", "killed"
    exitCode,    \* exit code of an exited child
    writes,      \* what the child wrote to stdout/stderr, in order
    output,      \* bytes returned by cmd.CombinedOutput
    err,         \* error returned by cmd.CombinedOutput ("" is nil)
    spawns,      \* calls of cmd.CombinedOutput made by this Run call
    samples,     \* samples pushed to state.Samples by this Run call
    result,      \* map returned by extractResult / Run
    outcome,     \* how Run returned: [kind, msg]
    registry,    \* vu.InitEnv().Registry, shared by all instances: name -> kind
    customMetrics, \* j.customMetrics of this instance: name -> kind of its metric
    todo,        \* entries of __k6_metrics__ the loop of this call has yet to visit
    peer,        \* the instance of another VU: [pc, customMetrics, todo, panicked]
    guest,       \* the runner in the child: script, runtime, arguments, position, output
    vuState,     \* j.vu.State() when it is not nil: [VUID, Iteration, scenario]
    helpers,     \* the helpers module in one process: current collectors, invocations of run()
    firedAt      \* what the child was doing when the timer of the deadline fired ("" before)

hostVars == <<registry, customMetrics, todo, peer>>

vars == <<pc, flowPath, arg, hasState, opts, ctxErr, hasDeadline, proc,
          exitCode, writes, output, err, spawns, samples, result, outcome,
          registry, customMetrics, todo, peer, guest, vuState, helpers, firedAt>>

(***************************************************************************)
(* Strings                                                                 *)
(***************************************************************************)
CharAt(s, i) == IF i >= 1 /\ i <= Len(s) THEN SubSeq(s, i, i) ELSE ""

From(s, i) == IF i > Len(s) THEN "" ELSE SubSeq(s, i, Len(s))

HasAt(s, i, lit) ==
    /\ i >= 1
    /\ i + Len(lit) - 1 <= Len(s)
    /\ SubSeq(s, i, i + Len(lit) - 1) = lit

HasPrefix(s, lit) == HasAt(s, 1, lit)

HasSuffix(s, lit) == HasAt(s, Len(s) - Len(lit) + 1, lit)

Contains(s, lit) == \E i \in 1..(Len(s) + 1) : HasAt(s, i, lit)

Min(S) == CHOOSE x \in S : \A y \in S : x <= y

\* unicode.ToLower on the letters the model's file names use
LowerChar(c) ==
    CASE c = "A" -> "a" [] c = "B" -> "b" [] c = "C" -> "c" [] c = "D" -> "d"
      [] c = "E" -> "e" [] c = "F" -> "f" [] c = "G" -> "g" [] c = "H" -> "h"
      [] c = "I" -> "i" [] c = "J" -> "j" [] c = "K" -> "k" [] c = "L" -> "l"
      [] c = "M" -> "m" [] c = "N" -> "n" [] c = "O" -> "o" [] c = "P" -> "p"
      [] c = "Q" -> "q" [] c = "R" -> "r" [] c = "S" -> "s" [] c = "T" -> "t"
      [] c = "U" -> "u" [] c = "V" -> "v" [] c = "W" -> "w" [] c = "X" -> "x"
      [] c = "Y" -> "y" [] c = "Z" -> "z" [] OTHER -> c

LowerFrom[s \in STRING, i \in Nat] ==
    IF i > Len(s) THEN "" ELSE LowerChar(SubSeq(s, i, i)) \o LowerFrom[s, i + 1]

\* strings.ToLower
ToLower(s) == LowerFrom[s, 1]

\* fmt's %q of a string without characters that need escaping
Quote(s) == "\"" \o s \o "\""

(***************************************************************************)
(* Go values (interface{}) as exported from the k6 script                  *)
(***************************************************************************)
Nil == [t |-> "nil"]
Str(s) == [t |-> "string", v |-> s]
Num(n) == [t |-> "number", v |-> n]
Bool(b) == [t |-> "bool", v |-> b]
Arr(a) == [t |-> "array", v |-> a]
Map(m) == [t |-> "map", m |-> m]
\* a JavaScript function: a Go func value, which encoding/json cannot encode
Func == [t |-> "func"]
EmptyMap == Map(<<>>)

IsMap(x) == x.t = "map"
IsString(x) == x.t = "string"
HasKey(x, k) == k \in DOMAIN x.m
\* rawMap[k]: the value, or nil when the key is missing
Get(x, k) == IF HasKey(x, k) THEN x.m[k] ELSE Nil

(***************************************************************************)
(* parseRunOptionsFromArgs                                                 *)
(***************************************************************************)
\* for k, v := range rawEnv { if s, ok := v.(string); ok { opts.Env[k] = s } }
EnvFrom(rawEnv) ==
    IF IsMap(rawEnv)
    THEN LET keys == {k \in DOMAIN rawEnv.m : IsString(rawEnv.m[k])}
         IN  [k \in keys |-> rawEnv.m[k].v]
    ELSE <<>>

\* IsOptions with entry counted among the keys that make an options object
IsOptionsWithEntry(a) ==
    \/ HasKey(a, "payload") \/ HasKey(a, "env")
    \/ HasKey(a, "timeout") \/ HasKey(a, "runtime") \/ HasKey(a, "entry")

\* lines 375-380: key presence alone decides, whatever the values are
IsOptions(a) ==
    \/ HasKey(a, "payload") \/ HasKey(a, "env")
    \/ HasKey(a, "timeout") \/ HasKey(a, "runtime")

\* PayloadOf without the default: rawMap["payload"], nil when missing
PayloadOfKey(a) == Get(a, "payload")

\* lines 366 and 392-394: Payload starts as the argument itself
PayloadOf(a) == IF HasKey(a, "payload") THEN a.m["payload"] ELSE a

parseRunOptionsFromArgs(entry, a) ==
    LET base == [Runtime |-> "", Entry |-> entry, Payload |-> a,
                 Env |-> <<>>, Timeout |-> ""]
        rt == Get(a, "runtime")
        en == Get(a, "entry")
        to == Get(a, "timeout")
    IN  IF ~IsMap(a) THEN [opts |-> base, err |-> ""]
        ELSE IF ~IsOptions(a) THEN [opts |-> base, err |-> ""]
        ELSE [opts |->
                [Runtime |-> IF IsString(rt) THEN rt.v ELSE "",
                 Entry   |-> IF IsString(en) /\ en.v # "" THEN en.v ELSE entry,
                 Payload |-> PayloadOf(a),
                 Env     |-> EnvFrom(Get(a, "env")),
                 Timeout |-> IF IsString(to) THEN to.v ELSE ""],
              err |-> ""]

(***************************************************************************)
(* detectRuntimeFromFilename                                               *)
(***************************************************************************)
RuntimeTags == <<"node", "deno", "bun">>
RuntimeExts == <<"js", "ts", "mjs", "cjs">>

\* RuntimeRegexAt for (node|deno|bun)\.(js|ts|mjs|cjs)$, the leading \. lost
RuntimeRegexAtNoDot(s, i) ==
    {p \in (1..Len(RuntimeTags)) \X (1..Len(RuntimeExts)) :
        From(s, i) = RuntimeTags[p[1]] \o "." \o RuntimeExts[p[2]]}

\* the alternatives of (node|deno|bun) and (js|ts|mjs|cjs) that let
\* \.(node|deno|bun)\.(js|ts|mjs|cjs)$ match s from position i to its end
RuntimeRegexAt(s, i) ==
    {p \in (1..Len(RuntimeTags)) \X (1..Len(RuntimeExts)) :
        From(s, i) = "." \o RuntimeTags[p[1]] \o "." \o RuntimeExts[p[2]]}

\* runtimeRegex.FindStringSubmatch: the leftmost match, as <<whole, tag, ext>>
RuntimeSubmatch(s) ==
    LET starts == {i \in 1..Len(s) : RuntimeRegexAt(s, i) # {}}
        First(P) == CHOOSE q \in P : \A r \in P :
                        q[1] < r[1] \/ (q[1] = r[1] /\ q[2] <= r[2])
        Pick[i \in Nat, p \in Nat \X Nat] ==
            <<From(s, i), RuntimeTags[p[1]], RuntimeExts[p[2]]>>
        At[i \in Nat] == Pick[i, First(RuntimeRegexAt(s, i))]
    IN  IF starts = {} THEN <<>> ELSE At[Min(starts)]

detectRuntimeFromFilename(filename) ==
    IF filename = "" THEN ""
    ELSE LET Group[lower \in STRING] ==
                 LET matches == RuntimeSubmatch(lower)
                 IN  IF Len(matches) >= 2 THEN matches[2] ELSE ""
         IN  Group[ToLower(filename)]

(***************************************************************************)
(* encoding/json, on the JSON texts of the model: objects, arrays, strings *)
(* with the escapes \" \\ \/ \n, integers, true, false, null               *)
(***************************************************************************)
IsSpace(c) == c \in {" ", "\n", "\t", "\r"}

Digits == <<"0", "1", "2", "3", "4", "5", "6", "7", "8", "9">>
IsDigit(c) == \E d \in 1..10 : Digits[d] = c
DigitVal(c) == (CHOOSE d \in 1..10 : Digits[d] = c) - 1

SpacesFrom[s \in STRING, i \in Nat] ==
    IF IsSpace(CharAt(s, i)) THEN SpacesFrom[s, i + 1] ELSE i

\* the first position from i on that holds no white space
SkipSpaces(s, i) == SpacesFrom[s, i]

ParseFail == [ok |-> FALSE, v |-> Nil, next |-> 0]
ParseOk(v, next) == [ok |-> TRUE, v |-> v, next |-> next]

\* the characters of a string literal after its opening quote
StringFrom[s \in STRING, j \in Nat, acc \in STRING] ==
    LET c == CharAt(s, j)
        d == CharAt(s, j + 1)
    IN  IF c = "" \/ c \in {"\n", "\t", "\r"} THEN ParseFail
        ELSE IF c = "\"" THEN ParseOk(Str(acc), j + 1)
        ELSE IF c = "\\"
             THEN IF d \in {"\"", "\\", "/"} THEN StringFrom[s, j + 2, acc \o d]
                  ELSE IF d = "n" THEN StringFrom[s, j + 2, acc \o "\n"]
                  ELSE ParseFail
        ELSE StringFrom[s, j + 1, acc \o c]

ScanString(s, j, acc) == StringFrom[s, j, acc]

DigitsFrom[s \in STRING, j \in Nat, n \in Nat] ==
    IF IsDigit(CharAt(s, j)) THEN DigitsFrom[s, j + 1, 10 * n + DigitVal(CharAt(s, j))]
    ELSE [v |-> n, next |-> j]

ScanDigits(s, j, n) == DigitsFrom[s, j, n]

ScanNumber(s, i) ==
    LET neg == CharAt(s, i) = "-"
        j   == IF neg THEN i + 1 ELSE i
        r   == ScanDigits(s, j, 0)
    IN  IF ~IsDigit(CharAt(s, j)) THEN ParseFail
        ELSE IF CharAt(s, j) = "0" /\ r.next > j + 1 THEN ParseFail
        ELSE ParseOk(Num(IF neg THEN 0 - r.v ELSE r.v), r.next)

\* the one element of a singleton: binds a value that is computed once
Only(S) == CHOOSE x \in S : TRUE

\* an object's members from a key on: the key k, its value v and the members
\* after the comma (a later key wins)
MembersDone(s, k, v, rest) ==
    LET e == SkipSpaces(s, v.next)
        With(m) == [x \in (DOMAIN m) \cup {k.v.v} |->
                        IF x \in DOMAIN m THEN m[x] ELSE v.v]
    IN  IF ~v.ok THEN ParseFail
        ELSE IF CharAt(s, e) = "}" THEN ParseOk(Map(With(<<>>)), e + 1)
        ELSE IF rest.ok THEN ParseOk(Map(With(rest.v.m)), rest.next)
        ELSE ParseFail

\* an array's elements from a value on: the value v and the elements after
\* the comma
ElementsDone(s, v, rest) ==
    LET e == SkipSpaces(s, v.next)
    IN  IF ~v.ok THEN ParseFail
        ELSE IF CharAt(s, e) = "]" THEN ParseOk(Arr(<<v.v>>), e + 1)
        ELSE IF rest.ok THEN ParseOk(Arr(<<v.v>> \o rest.v.v), rest.next)
        ELSE ParseFail

\* The decoder's three loops as one function of the position: a value at i,
\* the members "key" : value , ... } of an object from i (a later key wins),
\* the elements value , ... ] of an array from i.
ScanFrom[what \in {"value", "members", "elements"}, s \in STRING, i \in Nat] ==
    IF what = "value"
    THEN LET c == CharAt(s, i)
         IN  IF c = "{"
             THEN IF CharAt(s, SkipSpaces(s, i + 1)) = "}"
                  THEN ParseOk(EmptyMap, SkipSpaces(s, i + 1) + 1)
                  ELSE ScanFrom["members", s, SkipSpaces(s, i + 1)]
             ELSE IF c = "["
             THEN IF CharAt(s, SkipSpaces(s, i + 1)) = "]"
                  THEN ParseOk(Arr(<<>>), SkipSpaces(s, i + 1) + 1)
                  ELSE ScanFrom["elements", s, SkipSpaces(s, i + 1)]
             ELSE IF c = "\"" THEN ScanString(s, i + 1, "")
             ELSE IF HasAt(s, i, "null") THEN ParseOk(Nil, i + 4)
             ELSE IF HasAt(s, i, "true") THEN ParseOk(Bool(TRUE), i + 4)
             ELSE IF HasAt(s, i, "false") THEN ParseOk(Bool(FALSE), i + 5)
             ELSE ScanNumber(s, i)
    ELSE IF what = "members"
    THEN Only({Only({Only({MembersDone(s, k, v, rest) :
              rest \in {IF v.ok /\ CharAt(s, SkipSpaces(s, v.next)) = ","
                        THEN ScanFrom["members", s,
                                      SkipSpaces(s, SkipSpaces(s, v.next) + 1)]
                        ELSE ParseFail}}) :
              v \in {IF k.ok /\ CharAt(s, SkipSpaces(s, k.next)) = ":"
                     THEN ScanFrom["value", s,
                                   SkipSpaces(s, SkipSpaces(s, k.next) + 1)]
                     ELSE ParseFail}}) :
              k \in {IF CharAt(s, i) = "\"" THEN ScanString(s, i + 1, "")
                     ELSE ParseFail}})
    ELSE Only({Only({ElementsDone(s, v, rest) :
              rest \in {IF v.ok /\ CharAt(s, SkipSpaces(s, v.next)) = ","
                        THEN ScanFrom["elements", s,
                                      SkipSpaces(s, SkipSpaces(s, v.next) + 1)]
                        ELSE ParseFail}}) :
              v \in {ScanFrom["value", s, i]}})

ScanValue(s, i) == ScanFrom["value", s, i]

\* json.Unmarshal(text, &result) with result a nil map[string]interface{}:
\* a JSON object fills the map, the literal null leaves it nil without an
\* error, any other value is an UnmarshalTypeError
Decoded(text, r) ==
    IF SkipSpaces(text, 1) > Len(text)
    THEN [result |-> Nil, err |-> "unexpected end of JSON input"]
    ELSE IF ~r.ok
    THEN [result |-> Nil, err |-> "invalid character"]
    ELSE IF SkipSpaces(text, r.next) <= Len(text)
    THEN [result |-> Nil, err |-> "invalid character after top-level value"]
    ELSE IF r.v.t = "map" THEN [result |-> r.v, err |-> ""]
    ELSE IF r.v.t = "nil" THEN [result |-> Nil, err |-> ""]
    ELSE [result |-> Nil,
          err |-> "json: cannot unmarshal " \o r.v.t
                  \o " into Go value of type map[string]interface {}"]

Decode[text \in STRING] == Decoded(text, ScanValue(text, SkipSpaces(text, 1)))

Unmarshal(text) == Decode[text]

\* json.Marshal fails on a func value anywhere in the payload
RECURSIVE Marshalable(_)
Marshalable(x) ==
    CASE x.t = "func"  -> FALSE
      [] x.t = "map"   -> \A k \in DOMAIN x.m : Marshalable(x.m[k])
      [] x.t = "array" -> \A i \in DOMAIN x.v : Marshalable(x.v[i])
      [] OTHER         -> TRUE

(***************************************************************************)
(* strings.TrimSpace                                                       *)
(***************************************************************************)
TrimRight[s \in STRING] ==
    IF s # "" /\ IsSpace(CharAt(s, Len(s))) THEN TrimRight[SubSeq(s, 1, Len(s) - 1)]
    ELSE s

TrimSpace(s) == TrimRight[From(s, SkipSpaces(s, 1))]

(***************************************************************************)
(* extractResult                                                           *)
(***************************************************************************)
StartMarker == "__RESULT_START__"
EndMarker == "__RESULT_END__"

\* \s*__RESULT_END__ matches at position q
SpacesThenEnd(s, q) == HasAt(s, SkipSpaces(s, q), EndMarker)

\* the same pattern with a greedy group, which runs to the last end marker
ResultSubmatchGreedy(s) ==
    LET Body(i) == SkipSpaces(s, i + Len(StartMarker))
        Ends(i) == {q \in Body(i)..(Len(s) + 1) : SpacesThenEnd(s, q)}
        starts  == {i \in 1..Len(s) : HasAt(s, i, StartMarker) /\ Ends(i) # {}}
        Last(S) == CHOOSE x \in S : \A y \in S : y <= x
        Cut[i \in Nat, q \in Nat] ==
            <<SubSeq(s, i, SkipSpaces(s, q) + Len(EndMarker) - 1),
              IF q > Body(i) THEN SubSeq(s, Body(i), q - 1) ELSE "">>
        At[i \in Nat] == Cut[i, Last(Ends(i))]
    IN  IF starts = {} THEN <<>> ELSE At[Min(starts)]

\* re.FindStringSubmatch for __RESULT_START__\s*([\s\S]*?)\s*__RESULT_END__:
\* the leftmost start at which the whole expression matches; \s* takes all
\* the spaces after the marker, the lazy group then takes the fewest
\* characters that let \s*__RESULT_END__ follow.  <<whole, group>> or <<>>.
ResultSubmatch(s) ==
    LET Body(i) == SkipSpaces(s, i + Len(StartMarker))
        Ends(i) == {q \in Body(i)..(Len(s) + 1) : SpacesThenEnd(s, q)}
        starts  == {i \in 1..Len(s) : HasAt(s, i, StartMarker) /\ Ends(i) # {}}
        Cut[i \in Nat, q \in Nat] ==
            <<SubSeq(s, i, SkipSpaces(s, q) + Len(EndMarker) - 1),
              IF q > Body(i) THEN SubSeq(s, Body(i), q - 1) ELSE "">>
        At[i \in Nat] == Cut[i, Min(Ends(i))]
    IN  IF starts = {} THEN <<>> ELSE At[Min(starts)]

Unmarshalled(u) ==
    IF u.err # ""
    THEN [result |-> Nil, err |-> "failed to unmarshal result: " \o u.err]
    ELSE [result |-> u.result, err |-> ""]

Submatched[matches \in Seq(STRING)] ==
    IF Len(matches) < 2
    THEN [result |-> Nil, err |-> "result markers not found in output"]
    ELSE Unmarshalled(Unmarshal(TrimSpace(matches[2])))

extractResult(out) == Submatched[ResultSubmatch(out)]

(***************************************************************************)
(* time.ParseDuration, in milliseconds, on integer terms with the units    *)
(* ms, s, m, h                                                             *)
(***************************************************************************)
UnitMs(u) ==
    CASE u = "ms" -> 1 [] u = "s" -> 1000 [] u = "m" -> 60000
      [] u = "h" -> 3600000 [] OTHER -> 0 - 1

UnitFrom[s \in STRING, j \in Nat] ==
    IF CharAt(s, j) = "" \/ CharAt(s, j) = "." \/ IsDigit(CharAt(s, j)) THEN j
    ELSE UnitFrom[s, j + 1]

\* the loop over [0-9]+unit terms, from position i with total ms so far
TermsFrom[s \in STRING, i \in Nat, total \in Nat] ==
    LET n == ScanDigits(s, i, 0)
        e == UnitFrom[s, n.next]
        u == IF e > n.next THEN SubSeq(s, n.next, e - 1) ELSE ""
    IN  IF i > Len(s) THEN [ok |-> TRUE, d |-> total]
        ELSE IF n.next = i \/ u = "" \/ UnitMs(u) < 0 THEN [ok |-> FALSE, d |-> 0]
        ELSE TermsFrom[s, e, total + n.v * UnitMs(u)]

DurationTerms(s, i, total) == TermsFrom[s, i, total]

ParseDuration(s) ==
    LET neg  == CharAt(s, 1) = "-"
        body == IF CharAt(s, 1) \in {"-", "+"} THEN From(s, 2) ELSE s
        r    == DurationTerms(body, 1, 0)
    IN  IF body = "0" THEN [ok |-> TRUE, d |-> 0]
        ELSE IF body = "" \/ ~r.ok THEN [ok |-> FALSE, d |-> 0]
        ELSE [ok |-> TRUE, d |-> IF neg THEN 0 - r.d ELSE r.d]

(***************************************************************************)
(* The host: vu.State() tags and the samples channel                       *)
(***************************************************************************)
\* state.Tags.GetCurrentValues().Tags of the calling VU
AmbientTags == [scenario |-> "default"]

\* TagSet.WithTagsFromMap: sets each pair of m on the tag set
WithTagsFromMap(tags, m) ==
    [k \in (DOMAIN tags) \cup (DOMAIN m) |-> IF k \in DOMAIN m THEN m[k] ELSE tags[k]]

FlowTags(o) == WithTagsFromMap(AmbientTags, [flow |-> o.Entry, runtime |-> o.Runtime])

(***************************************************************************)
(* The telemetry of a result: the loop over __k6_metrics__ and the checks  *)
(***************************************************************************)
MetricsKey == "__k6_metrics__"
ChecksKey == "__k6_checks__"

\* result[key].([]interface{}): the key holds an array (a nil map holds none)
HasArray(res, key) == IsMap(res) /\ Get(res, key).t = "array"
ArrayAt(res, key) == IF HasArray(res, key) THEN Get(res, key).v ELSE <<>>

\* delete(result, key)
Delete(res, key) == Map([k \in (DOMAIN res.m) \ {key} |-> res.m[k]])

\* v, _ := data[k].(string)
StringAt(data, k) == IF IsString(Get(data, k)) THEN Get(data, k).v ELSE ""

\* extractMetricValue: encoding/json decodes every JSON number to a float64,
\* every other value takes the default branch
extractMetricValue(value) == IF value.t = "number" THEN value.v ELSE 0

\* the test before continue: the value came out 0 and was neither nil nor 0.0
SkippedValue(entry) ==
    /\ extractMetricValue(Get(entry, "value")) = 0
    /\ Get(entry, "value") # Nil
    /\ Get(entry, "value") # Num(0)

\* the switch on metricType
MetricKind(metricType) ==
    IF metricType \in {"counter", "gauge", "trend", "rate"} THEN metricType ELSE "counter"

\* the string-valued tags of the entry
TagsMap(entry) ==
    IF IsMap(Get(entry, "tags"))
    THEN [k \in {x \in DOMAIN Get(entry, "tags").m : IsString(Get(entry, "tags").m[x])}
             |-> Get(entry, "tags").m[k].v]
    ELSE <<>>

\* a map that keeps only the last name bound
Forgetful(f, k, v) == [x \in {k} |-> v]

\* j.customMetrics[metricName] = metric: the name is added to the map
Extend(f, k, v) == [x \in (DOMAIN f) \cup {k} |-> IF x = k THEN v ELSE f[x]]

\* Registry.NewMetric, under the lock of the registry: an invalid name is an
\* error (of the names used here only the empty one is invalid), a new name
\* is bound to the kind, a bound name is an error unless the kind is the same
NewMetric(reg, name, kind) ==
    IF name = "" THEN [ok |-> FALSE, registry |-> reg]
    ELSE IF name \notin DOMAIN reg THEN [ok |-> TRUE, registry |-> Extend(reg, name, kind)]
    ELSE [ok |-> reg[name] = kind, registry |-> reg]

MetricSample(name, kind, tags, value) ==
    [metric |-> name, kind |-> kind, tags |-> tags, value |-> value]

\* the entry after its metric was found or made: the sample is pushed
Pushed(cache, reg, entry) ==
    [customMetrics |-> cache, registry |-> reg, panicked |-> FALSE,
     samples |-> <<MetricSample(StringAt(entry, "name"), cache[StringAt(entry, "name")],
                                WithTagsFromMap(AmbientTags, TagsMap(entry)),
                                extractMetricValue(Get(entry, "value")))>>]

\* j.registry.MustNewMetric(metricName, metricKind) panics on the error of
\* NewMetric; otherwise the metric is cached under the name
Registered(cache, entry, made) ==
    IF ~made.ok
    THEN [customMetrics |-> cache, registry |-> made.registry, panicked |-> TRUE,
          samples |-> <<>>]
    ELSE Pushed(Extend(cache, StringAt(entry, "name"),
                       made.registry[StringAt(entry, "name")]),
                made.registry, entry)

\* the loop body without the lookup in j.customMetrics
MergeEntryUncached(cache, reg, entry) ==
    IF ~IsMap(entry) \/ SkippedValue(entry)
    THEN [customMetrics |-> cache, registry |-> reg, panicked |-> FALSE, samples |-> <<>>]
    ELSE Registered(cache, entry,
                    NewMetric(reg, StringAt(entry, "name"),
                              MetricKind(StringAt(entry, "type"))))

\* one pass of the loop over the entries of __k6_metrics__
MergeEntryOf(cache, reg, entry) ==
    IF ~IsMap(entry) \/ SkippedValue(entry)
    THEN [customMetrics |-> cache, registry |-> reg, panicked |-> FALSE, samples |-> <<>>]
    ELSE IF StringAt(entry, "name") \in DOMAIN cache THEN Pushed(cache, reg, entry)
    ELSE Registered(cache, entry,
                    NewMetric(reg, StringAt(entry, "name"),
                              MetricKind(StringAt(entry, "type"))))

\* the loop over the checks with every ok that is not false taken as passed
CheckSamplesTruthy(entries, kind) ==
    LET named == SelectSeq(entries, LAMBDA e : IsMap(e) /\ StringAt(e, "name") # "")
    IN  [i \in 1..Len(named) |->
            [metric |-> "checks", kind |-> kind,
             tags |-> [k \in (DOMAIN AmbientTags) \cup {"check"} |->
                          IF k = "check" THEN StringAt(named[i], "name") ELSE AmbientTags[k]],
             value |-> IF Get(named[i], "ok") \in {Bool(FALSE), Nil} THEN 0 ELSE 1]]

\* the loop over the entries of __k6_checks__: entries that are no object or
\* have no name are skipped
CheckSamples(entries, kind) ==
    LET named == SelectSeq(entries, LAMBDA e : IsMap(e) /\ StringAt(e, "name") # "")
    IN  [i \in 1..Len(named) |->
            MetricSample("checks", kind,
                         WithTagsFromMap(AmbientTags, [check |-> StringAt(named[i], "name")]),
                         IF Get(named[i], "ok") = Bool(TRUE) THEN 1 ELSE 0)]

\* the checks with their metric found or made
ChecksPushed(cache, reg, entries) ==
    [customMetrics |-> cache, registry |-> reg, panicked |-> FALSE,
     samples |-> CheckSamples(entries, cache["checks"])]

ChecksRegistered(cache, entries, made) ==
    IF ~made.ok
    THEN [customMetrics |-> cache, registry |-> made.registry, panicked |-> TRUE,
          samples |-> <<>>]
    ELSE ChecksPushed(Extend(cache, "checks", made.registry["checks"]),
                      made.registry, entries)

\* the block of the checks: entered with a VU state when the key holds an array
RecordChecksOf(cache, reg, res, state) ==
    IF ~(state /\ HasArray(res, ChecksKey))
    THEN [customMetrics |-> cache, registry |-> reg, panicked |-> FALSE, samples |-> <<>>]
    ELSE IF "checks" \in DOMAIN cache THEN ChecksPushed(cache, reg, ArrayAt(res, ChecksKey))
    ELSE ChecksRegistered(cache, ArrayAt(res, ChecksKey), NewMetric(reg, "checks", "rate"))

\* what Run returns: the result without the reserved keys that held an array
Stripped(res) ==
    LET r1 == IF HasArray(res, MetricsKey) THEN Delete(res, MetricsKey) ELSE res
    IN  IF HasArray(r1, ChecksKey) THEN Delete(r1, ChecksKey) ELSE r1

(***************************************************************************)
(* The inputs of the model                                                 *)
(***************************************************************************)
Absent == [t |-> "absent"]

\* the object with the keys whose value is not Absent
Object(pv, ev, tv, rv, nv, uv) ==
    LET all  == [payload |-> pv, env |-> ev, timeout |-> tv, runtime |-> rv,
                 entry |-> nv, user |-> uv]
        keys == {k \in DOMAIN all : all[k] # Absent}
    IN  Map([k \in keys |-> all[k]])

Objects(P, E, T, R, N, U) ==
    {Object(pv, ev, tv, rv, nv, uv) :
        pv \in P \cup {Absent}, ev \in E \cup {Absent}, tv \in T \cup {Absent},
        rv \in R \cup {Absent}, nv \in N \cup {Absent}, uv \in U \cup {Absent}}

PayloadA == Map([a |-> Num(1)])
EnvA == Map([NODE_ENV |-> Str("production"), DEBUG |-> Num(1)])

\* second arguments of the calls of the dispatcher's state machine
Args ==
    {Nil, Func}
    \cup Objects({PayloadA}, {}, {Str("5s"), Str("0s"), Str("abc"), Num(5)},
                 {Str("deno"), Str("python"), Num(42)}, {}, {})

FlowPaths == {"x.js", "x.bun.js"}

\* second arguments and entry paths for the argument interpreter and the
\* runtime selector alone
ArgsWide ==
    {Nil, Func, Str("alice"), Arr(<<Num(1)>>)}
    \cup Objects({PayloadA, Nil, Func}, {EnvA}, {Str("5s"), Str("abc"), Num(5)},
                 {Str("deno"), Str("python"), Str(""), Num(42)},
                 {Str("y.bun.js")}, {Str("alice")})

FlowPathsWide ==
    {"x.js", "x.node.js", "x.deno.ts", "x.bun.js", "x.DENO.TS", "x.bun.mjs",
     "xdeno.ts", "x.node.txt", "x.deno.ts.bak", ""}

\* what a child writes, a line at a time
StartLine == StartMarker \o "\n"
EndLine == EndMarker \o "\n"
LogLine == "log\n"
DocA == "{\"a\":1}\n"
DocNull == "null\n"
DocArr == "[1]\n"
DocEnd == "{\"m\":\"__RESULT_END__\"}\n"
ErrLine == "Error: boom\n"
\* one console.log call of the flow that prints a whole bracket of its own
DocB == "{\"b\":2}\n"
LoggedBracket == StartLine \o DocB \o EndLine
\* the result of a flow that counted a request and checked a condition
DocTelemetry ==
    "{\"a\":1,\"__k6_metrics__\":[{\"type\":\"counter\",\"name\":\"reqs\",\"value\":1,\"tags\":{}}],"
    \o "\"__k6_checks__\":[{\"name\":\"up\",\"ok\":true}]}\n"

RECURSIVE Concat(_)
Concat(w) == IF w = <<>> THEN "" ELSE Head(w) \o Concat(Tail(w))

\* the runs of a child that exits by itself: exit code and lines written
GuestRuns ==
    {[code |-> 0, writes |-> <<StartLine, DocA, EndLine>>],
     [code |-> 0, writes |-> <<LogLine, StartLine, DocA, EndLine, LogLine>>],
     [code |-> 0, writes |-> <<StartLine, DocNull, EndLine>>],
     [code |-> 0, writes |-> <<StartLine, DocTelemetry, EndLine>>],
     [code |-> 0, writes |-> <<LogLine>>],
     [code |-> 1, writes |-> <<ErrLine>>]}

\* the lines a child had written when it was killed
KilledWrites == {<<>>, <<LogLine>>, <<LogLine, StartLine>>}

\* telemetry entries a flow can hand back under __k6_metrics__
EntryCounter == "{\"type\":\"counter\",\"name\":\"reqs\",\"value\":1,\"tags\":{}}"
EntryGauge ==
    "{\"type\":\"gauge\",\"name\":\"reqs\",\"value\":0,"
    \o "\"tags\":{\"scenario\":\"mine\",\"k\":\"v\",\"n\":3}}"
EntryString == "{\"type\":\"trend\",\"name\":\"lat\",\"value\":\"7\"}"
EntryNull == "{\"type\":\"trend\",\"name\":\"lat\",\"value\":null}"
EntryAbsent == "{\"type\":\"trend\",\"name\":\"lat\"}"
EntryBool == "{\"type\":\"trend\",\"name\":\"lat\",\"value\":true}"
EntryNumber == "5"

EntryTexts ==
    {EntryCounter, EntryGauge, EntryString, EntryNull, EntryAbsent, EntryBool, EntryNumber}

MaxEntries == 2

RECURSIVE EntrySeqs(_)
EntrySeqs(n) ==
    IF n = 0 THEN {<<>>}
    ELSE EntrySeqs(n - 1) \cup {Append(w, e) : w \in EntrySeqs(n - 1), e \in EntryTexts}

RECURSIVE Join(_)
Join(w) ==
    IF w = <<>> THEN ""
    ELSE IF Len(w) = 1 THEN Head(w)
    ELSE Head(w) \o "," \o Join(Tail(w))

\* what a flow can leave under __k6_metrics__: an array of entries, or a
\* value of its own that is no array
MetricsTexts == {"[" \o Join(w) \o "]" : w \in EntrySeqs(MaxEntries)} \cup {"\"mine\""}

\* what a flow can leave under __k6_checks__
ChecksABC ==
    "[{\"name\":\"a\",\"ok\":true},{\"name\":\"b\",\"ok\":false},{\"name\":\"c\",\"ok\":true}]"
ChecksOdd == "[{\"name\":\"\",\"ok\":true},5,{\"name\":\"a\",\"ok\":\"yes\"}]"
ChecksTexts == {ChecksABC, ChecksOdd, "{}"}

Doc(members) == "{\"a\":1" \o members \o "}\n"
WithMetrics(m) == ",\"" \o MetricsKey \o "\":" \o m
WithChecks(c) == ",\"" \o ChecksKey \o "\":" \o c

TelemetryDocs ==
    {Doc(WithMetrics(m)) : m \in MetricsTexts}
    \cup {Doc(WithChecks(c)) : c \in ChecksTexts}
    \cup {Doc(WithMetrics("[" \o EntryCounter \o "]") \o WithChecks(ChecksABC)), DocA}

TelemetryRuns == {[code |-> 0, writes |-> <<StartLine, d, EndLine>>] : d \in TelemetryDocs}

\* the runs of two flows that use one name with two kinds
SharedRuns ==
    {[code |-> 0, writes |-> <<StartLine, Doc(WithMetrics("[" \o e \o "]")), EndLine>>] :
        e \in {EntryCounter, EntryGauge}}

\* the entries the other instance merges
PeerEntries == {<<ScanValue(e, 1).v>> : e \in {EntryCounter, EntryGauge}}

MaxFrags == 4
Frags == {StartLine, EndLine, LogLine, DocA, DocNull, DocArr, DocEnd, LoggedBracket}

RECURSIVE FragSeqs(_)
FragSeqs(n) ==
    IF n = 0 THEN {<<>>}
    ELSE FragSeqs(n - 1) \cup {Append(w, f) : w \in FragSeqs(n - 1), f \in Frags}

(***************************************************************************)
(* ExternalJS.Run                                                          *)
(***************************************************************************)
NoOpts == [Runtime |-> "", Entry |-> "", Payload |-> Nil, Env |-> <<>>, Timeout |-> ""]
NoOutcome == [kind |-> "none", msg |-> ""]

ValidRuntime(rt) == rt \in {"node", "deno", "bun"}

\* lines 125-135: the runtime Run goes on with
ResolveRuntime(o, path) ==
    LET filenameToCheck == IF o.Entry = "" THEN path ELSE o.Entry
        detected == IF o.Runtime = "" THEN detectRuntimeFromFilename(filenameToCheck)
                    ELSE o.Runtime
    IN  IF detected = "" THEN "node" ELSE detected

UnsupportedRuntime(rt) ==
    [kind |-> "caller",
     msg  |-> "unsupported runtime " \o Quote(rt) \o " (supported: node, deno, bun)"]

MarshalFailed ==
    [kind |-> "caller",
     msg  |-> "failed to marshal payload: json: unsupported type: func()"]

InvalidTimeout(t) ==
    [kind |-> "caller",
     msg  |-> "invalid timeout value " \o Quote(t) \o ": time: invalid duration " \o Quote(t)]

\* ctx.Err() as %w prints it
CtxErrText(e) ==
    IF e = "DeadlineExceeded" THEN "context deadline exceeded" ELSE "context canceled"

TimedOut(o, out) ==
    [kind |-> "timeout",
     msg  |-> o.Runtime \o " runtime timed out after " \o o.Timeout \o " (entry="
              \o o.Entry \o "): " \o CtxErrText("DeadlineExceeded") \o "\nOutput: " \o out]

ExecFailed(o, e, out) ==
    [kind |-> "exec",
     msg  |-> "failed to execute " \o o.Runtime \o " flow (entry=" \o o.Entry
              \o "): " \o e \o "\nOutput: " \o out]

ProtocolFailed(e, out) ==
    [kind |-> "protocol",
     msg  |-> "failed to extract result: " \o e \o "\nOutput: " \o out]

\* Classify with the error of the child looked at before the deadline
ClassifyErrFirst(o, cerr, e, out, ex) ==
    IF e # "" THEN ExecFailed(o, e, out)
    ELSE IF cerr = "DeadlineExceeded" THEN TimedOut(o, out)
    ELSE IF ex.err # "" THEN ProtocolFailed(ex.err, out)
    ELSE NoOutcome

\* lines 217-230: what Run returns once CombinedOutput has returned, with ex
\* what extractResult makes of the output, or NoOutcome when Run goes on to
\* the telemetry
Classify(o, cerr, e, out, ex) ==
    IF cerr = "DeadlineExceeded" THEN TimedOut(o, out)
    ELSE IF e # "" THEN ExecFailed(o, e, out)
    ELSE IF ex.err # "" THEN ProtocolFailed(ex.err, out)
    ELSE NoOutcome

\* AfterFailure with a failed execution spawned once more
AfterFailureRetry(kind) == IF kind = "exec" THEN "ready" ELSE "done"

\* where Run goes after a failure of the child: it returns
AfterFailure(kind) == "done"

\* KillsOnDone for exec.Command, which ignores ctx
KillsNever(cerr) == FALSE

\* exec.CommandContext kills the child once ctx is done
KillsOnDone(cerr) == cerr # "nil"

Idle ==
    /\ pc = "idle" /\ flowPath = "" /\ arg = Nil /\ hasState = FALSE
    /\ opts = NoOpts /\ ctxErr = "nil" /\ hasDeadline = FALSE
    /\ proc = "none" /\ exitCode = 0 /\ writes = <<>> /\ output = ""
    /\ err = "" /\ spawns = 0 /\ samples = <<>> /\ result = Nil
    /\ outcome = NoOutcome

\* NewModuleInstance has registered the two metrics of the module; no call
\* has cached a custom metric yet
Builtins ==
    [external_js_iteration_duration |-> "trend", external_js_iterations |-> "counter"]

NoPeer == [pc |-> "idle", customMetrics |-> <<>>, todo |-> <<>>, panicked |-> FALSE]

\* no child has been started
NoGuest == [pc |-> "none"]

MaxInvocations == 2
MaxEmits == 2
Invocations == 1..MaxInvocations

\* an invocation of a function wrapped by run() that has not started
NotStarted ==
    [pc |-> "idle", prevMetrics |-> 0, prevChecks |-> 0, handle |-> 0, emitted |-> <<>>,
     hasMetrics |-> FALSE, hasChecks |-> FALSE, apiThrew |-> FALSE]

\* the helpers module after its import: let currentMetrics = null, let
\* currentChecks = null (0); no collector has entries
Imported ==
    [currentMetrics |-> 0, currentChecks |-> 0,
     metrics |-> [c \in Invocations |-> <<>>], checks |-> [c \in Invocations |-> <<>>],
     inv |-> [i \in Invocations |-> NotStarted], top |-> "none"]

\* lib.State of the VU at its first iteration in the scenario "default"
FirstIteration == [VUID |-> 1, Iteration |-> 0, scenario |-> "default"]

Constructed ==
    /\ registry = Builtins /\ customMetrics = <<>> /\ todo = <<>> /\ peer = NoPeer
    /\ guest = NoGuest
    /\ vuState = FirstIteration
    /\ helpers = Imported
    /\ firedAt = ""

Init == Idle /\ Constructed

\* the k6 script calls ext.run(flowPath, arg)
Call ==
    /\ pc = "idle"
    /\ flowPath' \in FlowPaths
    /\ arg' \in Args
    /\ hasState' \in BOOLEAN
    /\ pc' = "called"
    /\ UNCHANGED <<opts, ctxErr, hasDeadline, proc, exitCode, writes, output,
                   err, spawns, samples, result, outcome>>
    /\ UNCHANGED <<hostVars, guest, vuState, helpers, firedAt>>

\* lines 120-123
Parse ==
    /\ pc = "called"
    /\ LET r == parseRunOptionsFromArgs(flowPath, arg)
       IN  IF r.err # ""
           THEN /\ pc' = "done"
                /\ outcome' = [kind |-> "caller", msg |-> r.err]
                /\ opts' = opts
           ELSE /\ pc' = "parsed"
                /\ opts' = r.opts
                /\ outcome' = outcome
    /\ UNCHANGED <<flowPath, arg, hasState, ctxErr, hasDeadline, proc, exitCode,
                   writes, output, err, spawns, samples, result>>
    /\ UNCHANGED <<hostVars, guest, vuState, helpers, firedAt>>

\* lines 125-144
SelectRuntime ==
    /\ pc = "parsed"
    /\ LET rt == ResolveRuntime(opts, flowPath)
       IN  IF ~ValidRuntime(rt)
           THEN /\ pc' = "done"
                /\ outcome' = UnsupportedRuntime(rt)
                /\ opts' = [opts EXCEPT !.Runtime = rt]
           ELSE /\ pc' = "selected"
                /\ opts' = [opts EXCEPT !.Runtime = rt,
                                        !.Entry = IF @ = "" THEN flowPath ELSE @]
                /\ outcome' = outcome
    /\ UNCHANGED <<flowPath, arg, hasState, ctxErr, hasDeadline, proc, exitCode,
                   writes, output, err, spawns, samples, result>>
    /\ UNCHANGED <<hostVars, guest, vuState, helpers, firedAt>>

\* lines 146-170: the payload is serialized, then the deadline is derived
Prepare ==
    /\ pc = "selected"
    /\ LET d == ParseDuration(opts.Timeout)
       IN  IF ~Marshalable(opts.Payload)
           THEN /\ pc' = "done" /\ outcome' = MarshalFailed
                /\ UNCHANGED <<ctxErr, hasDeadline>>
           ELSE IF opts.Timeout # "" /\ ~d.ok
           THEN /\ pc' = "done" /\ outcome' = InvalidTimeout(opts.Timeout)
                /\ UNCHANGED <<ctxErr, hasDeadline>>
           ELSE /\ pc' = "ready" /\ outcome' = outcome
                /\ hasDeadline' = (opts.Timeout # "")
                \* context.WithTimeout with d <= 0 returns a context already expired
                /\ ctxErr' = IF opts.Timeout # "" /\ d.d <= 0 /\ ctxErr = "nil"
                             THEN "DeadlineExceeded" ELSE ctxErr
    /\ UNCHANGED <<flowPath, arg, hasState, opts, proc, exitCode, writes, output,
                   err, spawns, samples, result>>
    /\ firedAt' = (IF ctxErr' = ctxErr THEN firedAt ELSE proc)
    /\ UNCHANGED <<hostVars, guest, vuState, helpers>>

\* lines 172-198: cmd.CombinedOutput starts the child, unless ctx is already
\* done or the runtime cannot be started
Spawn ==
    /\ pc = "ready"
    /\ spawns' = spawns + 1
    /\ \/ /\ ctxErr # "nil"
          /\ err' = CtxErrText(ctxErr)
          /\ pc' = "returned"
          /\ proc' = proc
       \/ /\ ctxErr = "nil"
          /\ err' = "exec: " \o Quote(opts.Runtime) \o ": executable file not found in $PATH"
          /\ pc' = "returned"
          /\ proc' = proc
       \/ /\ ctxErr = "nil"
          /\ err' = err
          /\ pc' = "waiting"
          /\ proc' = "running"
    /\ UNCHANGED <<flowPath, arg, hasState, opts, ctxErr, hasDeadline, exitCode,
                   writes, output, samples, result, outcome>>
    /\ UNCHANGED <<hostVars, guest, vuState, helpers, firedAt>>

\* the child runs to its end
GuestExit ==
    /\ pc = "waiting" /\ proc = "running"
    /\ \E g \in GuestRuns :
          /\ writes' = g.writes
          /\ exitCode' = g.code
    /\ proc' = "exited"
    /\ UNCHANGED <<pc, flowPath, arg, hasState, opts, ctxErr, hasDeadline, output,
                   err, spawns, samples, result, outcome>>
    /\ UNCHANGED <<hostVars, guest, vuState, helpers, firedAt>>

\* the timer of context.WithTimeout fires
DeadlineFires ==
    /\ pc \in {"ready", "waiting", "returned"}
    /\ hasDeadline /\ ctxErr = "nil"
    /\ ctxErr' = "DeadlineExceeded"
    /\ UNCHANGED <<pc, flowPath, arg, hasState, opts, hasDeadline, proc, exitCode,
                   writes, output, err, spawns, samples, result, outcome>>
    /\ firedAt' = proc
    /\ UNCHANGED <<hostVars, guest, vuState, helpers>>

\* k6 cancels vu.Context()
ParentCancel ==
    /\ pc \in {"ready", "waiting", "returned"}
    /\ ctxErr = "nil"
    /\ ctxErr' = "Canceled"
    /\ UNCHANGED <<pc, flowPath, arg, hasState, opts, hasDeadline, proc, exitCode,
                   writes, output, err, spawns, samples, result, outcome>>
    /\ UNCHANGED <<hostVars, guest, vuState, helpers, firedAt>>

\* os.Process.Kill by the goroutine that watches ctx.Done()
Kill ==
    /\ pc = "waiting" /\ proc = "running"
    /\ KillsOnDone(ctxErr)
    /\ proc' = "killed"
    /\ writes' \in KilledWrites
    /\ UNCHANGED <<pc, flowPath, arg, hasState, opts, ctxErr, hasDeadline, exitCode,
                   output, err, spawns, samples, result, outcome>>
    /\ UNCHANGED <<hostVars, guest, vuState, helpers, firedAt>>

\* cmd.Wait returns: CombinedOutput hands back the captured bytes
WaitReturn ==
    /\ pc = "waiting" /\ proc \in {"exited", "killed"}
    /\ output' = Concat(writes)
    /\ err' = IF proc = "killed" THEN "signal: killed"
              ELSE IF exitCode # 0 THEN "exit status " \o Digits[exitCode + 1]
              ELSE ""
    /\ pc' = "returned"
    /\ UNCHANGED <<flowPath, arg, hasState, opts, ctxErr, hasDeadline, proc, exitCode,
                   writes, spawns, samples, result, outcome>>
    /\ UNCHANGED <<hostVars, guest, vuState, helpers, firedAt>>

\* lines 199-230
Settle ==
    /\ pc = "returned"
    /\ samples' = IF hasState
                  THEN Append(samples, [metric |-> "external_js_iteration_duration",
                                        tags |-> FlowTags(opts), value |-> "duration"])
                  ELSE samples
    /\ \E ex \in {extractResult(output)} :
       \E c \in {Classify(opts, ctxErr, err, output, ex)} :
          IF c.kind # "none"
          THEN /\ outcome' = c
               /\ pc' = AfterFailure(c.kind)
               /\ result' = result
          ELSE /\ outcome' = outcome
               /\ pc' = "extracted"
               /\ result' = ex.result
    /\ UNCHANGED <<flowPath, arg, hasState, opts, ctxErr, hasDeadline, proc, exitCode,
                   writes, output, err, spawns>>
    /\ UNCHANGED <<hostVars, guest, vuState, helpers, firedAt>>

\* lines 232-248: the count sample, then the entries of __k6_metrics__ to merge
Finish ==
    /\ pc = "extracted"
    /\ samples' = IF hasState
                  THEN Append(samples, [metric |-> "external_js_iterations",
                                        tags |-> FlowTags(opts), value |-> "1"])
                  ELSE samples
    /\ todo' = IF hasState THEN ArrayAt(result, MetricsKey) ELSE <<>>
    /\ pc' = "merging"
    /\ UNCHANGED <<flowPath, arg, hasState, opts, ctxErr, hasDeadline, proc, exitCode,
                   writes, output, err, spawns, result, outcome,
                   registry, customMetrics, peer, guest, vuState, helpers, firedAt>>

Panicked == [kind |-> "panic", msg |-> "panic in MustNewMetric"]

\* lines 250-299: one entry of __k6_metrics__
MergeEntry ==
    /\ pc = "merging" /\ todo # <<>>
    /\ \E r \in {MergeEntryOf(customMetrics, registry, Head(todo))} :
          /\ registry' = r.registry
          /\ customMetrics' = r.customMetrics
          /\ samples' = samples \o r.samples
          /\ IF r.panicked
             THEN /\ pc' = "done" /\ outcome' = Panicked
                  /\ todo' = <<>> /\ result' = Nil
             ELSE /\ pc' = pc /\ outcome' = outcome
                  /\ todo' = Tail(todo) /\ result' = result
    /\ UNCHANGED <<flowPath, arg, hasState, opts, ctxErr, hasDeadline, proc, exitCode,
                   writes, output, err, spawns, peer, guest, vuState, helpers, firedAt>>

\* lines 302-352: the metrics key is deleted, the checks are recorded and
\* their key is deleted, Run returns the result
RecordChecks ==
    /\ pc = "merging" /\ todo = <<>>
    /\ \E r \in {RecordChecksOf(customMetrics, registry, result, hasState)} :
          /\ registry' = r.registry
          /\ customMetrics' = r.customMetrics
          /\ samples' = samples \o r.samples
          /\ outcome' = IF r.panicked THEN Panicked ELSE [kind |-> "ok", msg |-> ""]
          /\ result' = IF r.panicked THEN Nil ELSE Stripped(result)
    /\ pc' = "done"
    /\ UNCHANGED <<flowPath, arg, hasState, opts, ctxErr, hasDeadline, proc, exitCode,
                   writes, output, err, spawns, todo, peer, guest, vuState, helpers, firedAt>>

\* Run has returned; the dispatcher is ready for the next call
Return ==
    /\ pc = "done"
    /\ pc' = "idle" /\ flowPath' = "" /\ arg' = Nil /\ hasState' = FALSE
    /\ opts' = NoOpts /\ ctxErr' = "nil" /\ hasDeadline' = FALSE
    /\ proc' = "none" /\ exitCode' = 0 /\ writes' = <<>> /\ output' = ""
    /\ err' = "" /\ spawns' = 0 /\ samples' = <<>> /\ result' = Nil
    /\ outcome' = NoOutcome
    /\ guest' = NoGuest
    /\ firedAt' = ""
    /\ UNCHANGED <<hostVars, vuState, helpers>>

(***************************************************************************)
(* Calls of flows that hand back telemetry, one after the other, on one    *)
(* instance.                                                               *)
(***************************************************************************)
CallFlow ==
    /\ pc = "idle"
    /\ flowPath' = "x.js"
    /\ arg' = Nil
    /\ hasState' \in BOOLEAN
    /\ pc' = "called"
    /\ UNCHANGED <<opts, ctxErr, hasDeadline, proc, exitCode, writes, output,
                   err, spawns, samples, result, outcome>>
    /\ UNCHANGED <<hostVars, guest, vuState, helpers, firedAt>>

GuestTelemetry ==
    /\ pc = "waiting" /\ proc = "running"
    /\ \E g \in TelemetryRuns :
          /\ writes' = g.writes
          /\ exitCode' = g.code
    /\ proc' = "exited"
    /\ UNCHANGED <<pc, flowPath, arg, hasState, opts, ctxErr, hasDeadline, output,
                   err, spawns, samples, result, outcome>>
    /\ UNCHANGED <<hostVars, guest, vuState, helpers, firedAt>>

(***************************************************************************)
(* A second instance of the module, made by NewModuleInstance for another  *)
(* VU with the registry of the first: its Run from line 247 on.            *)
(***************************************************************************)
GuestShared ==
    /\ pc = "waiting" /\ proc = "running"
    /\ \E g \in SharedRuns :
          /\ writes' = g.writes
          /\ exitCode' = g.code
    /\ proc' = "exited"
    /\ UNCHANGED <<pc, flowPath, arg, hasState, opts, ctxErr, hasDeadline, output,
                   err, spawns, samples, result, outcome>>
    /\ UNCHANGED <<hostVars, guest, vuState, helpers, firedAt>>

runVars ==
    <<pc, flowPath, arg, hasState, opts, ctxErr, hasDeadline, proc, exitCode,
      writes, output, err, spawns, samples, result, outcome>>

\* the peer's call has a result with entries and a VU state
PeerSucceed ==
    /\ peer.pc = "idle" /\ ~peer.panicked
    /\ \E t \in PeerEntries : peer' = [peer EXCEPT !.pc = "merging", !.todo = t]
    /\ UNCHANGED <<runVars, registry, customMetrics, todo, guest, vuState, helpers, firedAt>>

\* lines 250-299 in the peer
PeerMergeEntry ==
    /\ peer.pc = "merging" /\ peer.todo # <<>>
    /\ \E r \in {MergeEntryOf(peer.customMetrics, registry, Head(peer.todo))} :
          /\ registry' = r.registry
          /\ peer' = [pc |-> IF r.panicked THEN "idle" ELSE "merging",
                      customMetrics |-> r.customMetrics,
                      todo |-> IF r.panicked THEN <<>> ELSE Tail(peer.todo),
                      panicked |-> r.panicked]
    /\ UNCHANGED <<runVars, customMetrics, todo, guest, vuState, helpers, firedAt>>

PeerReturn ==
    /\ peer.pc = "merging" /\ peer.todo = <<>>
    /\ peer' = [peer EXCEPT !.pc = "idle"]
    /\ UNCHANGED <<runVars, registry, customMetrics, todo, guest, vuState, helpers, firedAt>>

Next ==
    \/ Call \/ Parse \/ SelectRuntime \/ Prepare \/ Spawn \/ GuestExit
    \/ DeadlineFires \/ ParentCancel \/ Kill \/ WaitReturn \/ Settle \/ Finish
    \/ MergeEntry \/ RecordChecks \/ Return

Spec == Init /\ [][Next]_vars

(***************************************************************************)
(* The argument interpreter and the runtime selector on their own: Run is  *)
(* entered with any of the wide inputs and runs up to the spawn            *)
(***************************************************************************)
InitArgs ==
    /\ pc = "called"
    /\ flowPath \in FlowPathsWide
    /\ arg \in ArgsWide
    /\ hasState = FALSE
    /\ opts = NoOpts /\ ctxErr = "nil" /\ hasDeadline = FALSE
    /\ proc = "none" /\ exitCode = 0 /\ writes = <<>> /\ output = ""
    /\ err = "" /\ spawns = 0 /\ samples = <<>> /\ result = Nil
    /\ outcome = NoOutcome
    /\ Constructed

NextArgs == Parse \/ SelectRuntime \/ Prepare

SpecArgs == InitArgs /\ [][NextArgs]_vars

(***************************************************************************)
(* The same steps from the return of CombinedOutput on, for a child that   *)
(* exited with code 0 after writing any sequence of up to MaxFrags         *)
(* fragments.                                                              *)
(***************************************************************************)
InitExtract ==
    /\ pc = "returned"
    /\ flowPath = "x.js" /\ arg = Nil /\ hasState = FALSE
    /\ opts = [NoOpts EXCEPT !.Runtime = "node", !.Entry = "x.js"]
    /\ ctxErr = "nil" /\ hasDeadline = FALSE
    /\ proc = "exited" /\ exitCode = 0
    /\ writes \in FragSeqs(MaxFrags) /\ output = Concat(writes)
    /\ err = "" /\ spawns = 1 /\ samples = <<>> /\ result = Nil
    /\ outcome = NoOutcome
    /\ Constructed

NextExtract == Settle \/ Finish \/ RecordChecks

SpecExtract == InitExtract /\ [][NextExtract]_vars

NextMerge ==
    \/ CallFlow \/ Parse \/ SelectRuntime \/ Prepare \/ Spawn \/ GuestTelemetry
    \/ WaitReturn \/ Settle \/ Finish \/ MergeEntry \/ RecordChecks \/ Return

SpecMerge == Init /\ [][NextMerge]_vars

NextShared ==
    \/ CallFlow \/ Parse \/ SelectRuntime \/ Prepare \/ Spawn \/ GuestShared
    \/ WaitReturn \/ Settle \/ Finish \/ MergeEntry \/ RecordChecks \/ Return
    \/ PeerSucceed \/ PeerMergeEntry \/ PeerReturn

SpecShared == Init /\ [][NextShared]_vars

(***************************************************************************)
(* C1: the second argument is read as an options object iff it is a map    *)
(* holding at least one of the keys payload, env, timeout, runtime, by key *)
(* presence alone; otherwise the request is the plain one whose payload is *)
(* the argument itself; parsing never fails.                               *)
(***************************************************************************)
ReservedKeys == {"payload", "env", "timeout", "runtime"}

OptionsShape(a) == a.t = "map" /\ (DOMAIN a.m) \cap ReservedKeys # {}

PlainRequest(path, a) ==
    [Runtime |-> "", Entry |-> path, Payload |-> a, Env |-> <<>>, Timeout |-> ""]

\* the keys of an options object take effect
ReadAsOptions(o, a) ==
    /\ \A k \in DOMAIN a.m :
          a.m[k].t = "string" =>
             /\ k = "runtime" => o.Runtime = a.m[k].v
             /\ k = "timeout" => o.Timeout = a.m[k].v
             /\ (k = "entry" /\ a.m[k].v # "") => o.Entry = a.m[k].v
    /\ "payload" \in DOMAIN a.m => o.Payload = a.m["payload"]

C1_Parsed ==
    pc = "parsed" =>
        /\ ~OptionsShape(arg) => opts = PlainRequest(flowPath, arg)
        /\ OptionsShape(arg) => ReadAsOptions(opts, arg)

C1_Classification == []C1_Parsed /\ [][pc = "called" => pc' = "parsed"]_vars

\* an object with keys, none of them reserved, went through as the payload
C1_Witness ==
    /\ pc = "parsed" /\ flowPath = "x.js"
    /\ arg.t = "map" /\ "entry" \in DOMAIN arg.m /\ ~OptionsShape(arg)
    /\ opts.Payload = arg /\ opts.Entry = flowPath

(***************************************************************************)
(* C2: in an options object the payload is the value under the payload key *)
(* when that key is present, and the whole second argument otherwise.      *)
(***************************************************************************)
C2_PayloadDefault ==
    (pc \in {"parsed", "selected", "ready"} /\ OptionsShape(arg)) =>
        opts.Payload = IF "payload" \in DOMAIN arg.m THEN arg.m["payload"] ELSE arg

C2_Witness ==
    /\ pc = "parsed"
    /\ OptionsShape(arg) /\ "payload" \notin DOMAIN arg.m
    /\ "timeout" \in DOMAIN arg.m
    /\ opts.Payload = arg

(***************************************************************************)
(* C3: a supported explicit runtime option wins over the file name; with   *)
(* no runtime option the runtime is the tag node, deno or bun right before *)
(* a js/ts/mjs/cjs extension at the end of the entry name (letter case     *)
(* ignored), else node; x.node.js, x.deno.ts, x.bun.js, x.js give node,    *)
(* deno, bun, node; a name that matches nothing is never an error.         *)
(***************************************************************************)
Supported == {"node", "deno", "bun"}
Extensions == {"js", "ts", "mjs", "cjs"}

ExplicitRuntime(a) == a.t = "map" /\ "runtime" \in DOMAIN a.m

\* the entry of the call: the entry option of an options object, else the path
EntryName(path, a) ==
    IF /\ OptionsShape(a) /\ "entry" \in DOMAIN a.m
       /\ a.m["entry"].t = "string" /\ a.m["entry"] # Str("")
    THEN a.m["entry"].v ELSE path

TagsOf(name) ==
    {tag \in Supported :
        \E ext \in Extensions : HasSuffix(ToLower(name), "." \o tag \o "." \o ext)}

TagOrDefault(name) == IF TagsOf(name) = {} THEN "node" ELSE CHOOSE tag \in TagsOf(name) : TRUE

C4_FailFast ==
    (/\ pc \in {"selected", "ready", "done"}
     /\ ExplicitRuntime(arg) /\ arg.m["runtime"] \notin {Str(r) : r \in Supported})
        => /\ pc = "done"
           /\ outcome.kind = "caller"
           /\ HasPrefix(outcome.msg, "unsupported runtime")
           /\ Contains(outcome.msg, "node, deno, bun")

(***************************************************************************)
(* C6: a supplied timeout option is parsed as a duration, and a supplied   *)
(* value that is no valid duration ends Run in a caller error: the flow is *)
(* never run without a deadline.                                           *)
(***************************************************************************)
SuppliedTimeout(a) == a.t = "map" /\ "timeout" \in DOMAIN a.m

ValidDurationValue(v) == v.t = "string" /\ ParseDuration(v.v).ok

C6_TimeoutParsed ==
    SuppliedTimeout(arg) =>
        /\ pc = "ready" => hasDeadline /\ ValidDurationValue(arg.m["timeout"])
        /\ pc = "done" /\ ~ValidDurationValue(arg.m["timeout"]) => outcome.kind = "caller"

ChildFailed == proc = "none" \/ proc = "killed" \/ exitCode # 0

C7_KindInOrder ==
    IF ctxErr = "DeadlineExceeded" THEN "timeout"
    ELSE IF ChildFailed THEN "exec"
    ELSE IF extractResult(Concat(writes)).err # "" THEN "protocol"
    ELSE "ok"

C7_Classification ==
    (pc = "done" /\ spawns = 1) =>
        /\ outcome.kind = C7_KindInOrder
        /\ outcome.kind \in {"timeout", "exec", "protocol"} =>
              HasSuffix(outcome.msg, "\nOutput: " \o Concat(writes))
        /\ outcome.kind = "timeout" =>
              \E r \in Supported : HasPrefix(outcome.msg, r \o " runtime timed out after ")
        /\ outcome.kind = "exec" => HasPrefix(outcome.msg, "failed to execute ")
        /\ outcome.kind = "protocol" => HasPrefix(outcome.msg, "failed to extract result: ")

\* the deadline fired and the killed child had written a line
C7_Witness ==
    /\ pc = "done" /\ outcome.kind = "timeout"
    /\ proc = "killed" /\ writes = <<LogLine>>
    /\ HasSuffix(outcome.msg, "\nOutput: log\n")

(***************************************************************************)
(* C8: with a timeout supplied, once the deadline has fired while the      *)
(* child is still running, Run does return, what it returns is the timeout *)
(* failure, and the child is no longer running when Run returns.           *)
(***************************************************************************)
\* Run's own steps always go on; the armed timer fires; the watcher of
\* ctx.Done() kills; Wait returns once the child is over.  The child itself
\* may run for ever and the script need not call.
RunSteps ==
    \/ Parse \/ SelectRuntime \/ Prepare \/ Spawn \/ WaitReturn \/ Settle \/ Finish
    \/ MergeEntry \/ RecordChecks

Fairness == WF_vars(RunSteps) /\ WF_vars(DeadlineFires) /\ WF_vars(Kill)

LiveSpec == Init /\ [][Next]_vars /\ Fairness

Overrun == pc = "waiting" /\ proc = "running" /\ hasDeadline /\ ctxErr = "DeadlineExceeded"

TimeoutReturned ==
    pc = "done" /\ outcome.kind = "timeout" /\ proc \in {"killed", "exited"}

Waiting == pc = "waiting" /\ hasDeadline

C8_TimeoutReturns ==
    /\ Waiting ~> pc = "done"
    /\ Overrun ~> TimeoutReturned
    /\ [](pc = "done" => proc # "running")

C8_Witness == TimeoutReturned /\ proc = "killed" /\ opts.Timeout = "5s"

(***************************************************************************)
(* The result bracket, read from the text of the output.                   *)
(***************************************************************************)
StartsAt(s) == {i \in 1..Len(s) : HasAt(s, i, StartMarker)}
EndsAfter(s, i) == {q \in (i + Len(StartMarker))..Len(s) : HasAt(s, q, EndMarker)}
Bracketed(s) == StartsAt(s) # {} /\ EndsAfter(s, Min(StartsAt(s))) # {}
\* the trimmed text between the first start marker and the next end marker
Between(s) ==
    LET i == Min(StartsAt(s))
        q == Min(EndsAfter(s, i))
    IN  TrimSpace(SubSeq(s, i + Len(StartMarker), q - 1))
IsObjectText(t) ==
    LET r == ScanValue(t, SkipSpaces(t, 1))
    IN  r.ok /\ r.v.t = "map" /\ SkipSpaces(t, r.next) > Len(t)
ObjectOf(t) == ScanValue(t, SkipSpaces(t, 1)).v
Extracted == pc \in {"extracted", "done"}
Returns(v) == outcome.kind \in {"none", "ok"} /\ result = v
Rejected == outcome.kind = "protocol" /\ result = Nil

\* C9: extractResult decodes the trimmed text between the first start marker
\* and the first end marker after it; when the markers are missing or that
\* text is not a JSON object, Run gets an error and no result.
C9_Extraction ==
    Extracted =>
        IF Bracketed(output) /\ IsObjectText(Between(output))
        THEN Returns(ObjectOf(Between(output)))
        ELSE Rejected

\* the positions in the child's writes of a start marker line, a JSON
\* object and an end marker line in a row
ObjectDocs == {DocA, DocB, DocEnd}
Brackets(w) ==
    {k \in 1..(Len(w) - 2) :
        w[k] = StartLine /\ w[k + 1] \in ObjectDocs /\ w[k + 2] = EndLine}
TextBefore(w, k) == Concat(SubSeq(w, 1, k - 1))

\* C10 as stated: whatever text is written before and after a bracket
\* holding the JSON object J, the decoded result is J.
C10_AnyLogging ==
    Extracted => \A k \in Brackets(writes) : Returns(ObjectOf(writes[k + 1]))

\* C10: when the text written before the bracket holds no start marker and
\* the text of J holds no end marker, the decoded result is J, whatever is
\* written before and after the bracket.
C10_Bracket ==
    Extracted =>
        \A k \in Brackets(writes) :
            ~Contains(TextBefore(writes, k), StartMarker)
                /\ ~Contains(writes[k + 1], EndMarker)
            => Returns(ObjectOf(writes[k + 1]))

C10_Witness ==
    /\ pc = "done" /\ outcome.kind = "ok"
    /\ 2 \in Brackets(writes)
    /\ Contains(TextBefore(writes, 2), EndMarker)
    /\ result = ObjectOf(DocA)

(***************************************************************************)
(* C11: the result a successful Run returns holds neither reserved key,    *)
(* whatever the guest put under them and with or without a VU state.       *)
(***************************************************************************)
Succeeded == pc = "done" /\ outcome.kind = "ok"

C11_Stripped ==
    (Succeeded /\ IsMap(result))
        => ~HasKey(result, MetricsKey) /\ ~HasKey(result, ChecksKey)

(***************************************************************************)
(* C12: within one instance every sample of a telemetry name goes to the   *)
(* metric made by the first entry seen with that name: a name once cached  *)
(* keeps its metric and its kind, in the cache and in the registry, a      *)
(* later entry of another kind posts to it, and no call panics over a      *)
(* second registration.                                                    *)
(***************************************************************************)
\* the samples of the telemetry entries and checks pushed by this call
MergeSamples == SelectSeq(samples, LAMBDA x : "kind" \in DOMAIN x)

SamplesOnCached ==
    \A i \in 1..Len(MergeSamples) :
        /\ MergeSamples[i].metric \in DOMAIN customMetrics
        /\ MergeSamples[i].kind = customMetrics[MergeSamples[i].metric]
        /\ MergeSamples[i].kind = registry[MergeSamples[i].metric]

KindKept ==
    /\ \A n \in DOMAIN customMetrics :
          n \in DOMAIN customMetrics' /\ customMetrics'[n] = customMetrics[n]
    /\ \A n \in DOMAIN registry :
          n \in DOMAIN registry' /\ registry'[n] = registry[n]

C12_FirstKind ==
    /\ [](SamplesOnCached /\ outcome.kind # "panic")
    /\ [][KindKept]_vars

\* the entry sent as a gauge (the one of value 0) was pushed to the counter
\* that an earlier entry had made
C12_Witness ==
    \E i \in 1..Len(MergeSamples) :
        /\ MergeSamples[i].metric = "reqs" /\ MergeSamples[i].value = 0
        /\ MergeSamples[i].kind = "counter"

(***************************************************************************)
(* C13: two instances with one registry and a cache each merge entries of  *)
(* one name and two kinds, in any interleaving, into the metric first      *)
(* bound to the name: a second kind is never registered for the name and   *)
(* no call fails or panics over it.                                        *)
(***************************************************************************)
CachesAgree ==
    /\ \A n \in DOMAIN customMetrics : customMetrics[n] = registry[n]
    /\ \A n \in DOMAIN peer.customMetrics : peer.customMetrics[n] = registry[n]

C13_SharedName == CachesAgree /\ outcome.kind # "panic" /\ ~peer.panicked

(***************************************************************************)
(* C14: in the merge an entry pushes a sample iff its value is a number:   *)
(* an entry whose value is a string, a boolean, an object, null or absent  *)
(* pushes nothing and fails nothing, an entry with a number (0 included)   *)
(* pushes exactly one sample of that value.                                *)
(***************************************************************************)
EntryAtHand == pc = "merging" /\ todo # <<>> /\ IsMap(Head(todo))

C14_NumericOnly ==
    [][EntryAtHand =>
          /\ outcome'.kind # "panic"
          /\ IF Get(Head(todo), "value").t = "number"
             THEN /\ Len(samples') = Len(samples) + 1
                  /\ samples'[Len(samples')].value = Get(Head(todo), "value").v
             ELSE samples' = samples]_vars

(***************************************************************************)
(* C15: the tags of the sample of an entry are the ambient tags of the VU  *)
(* merged with the string-valued tags of the entry, and every key of the   *)
(* ambient tags keeps the ambient value even when the entry supplies       *)
(* another value for it.                                                   *)
(***************************************************************************)
C15_AmbientKept ==
    \A i \in 1..Len(MergeSamples) :
        \A k \in DOMAIN AmbientTags :
            k \in DOMAIN MergeSamples[i].tags /\ MergeSamples[i].tags[k] = AmbientTags[k]

(***************************************************************************)
(* C16: a successful call with a VU state whose result carries n check     *)
(* entries pushes exactly n samples, in the order of the entries, all on   *)
(* the one rate metric named checks, the i-th tagged with the name of the  *)
(* i-th check and valued 1 if it passed and 0 if not.                      *)
(***************************************************************************)
\* the check entries of the result the child printed
CheckEntries ==
    IF pc = "done" /\ extractResult(output).err = ""
    THEN SelectSeq(ArrayAt(extractResult(output).result, ChecksKey), IsMap)
    ELSE <<>>

ChecksSamples == SelectSeq(MergeSamples, LAMBDA x : x.metric = "checks")

NamedChecks == SelectSeq(CheckEntries, LAMBDA e : StringAt(e, "name") # "")

SamplesOf(name) == SelectSeq(samples, LAMBDA x : x.metric = name)

OnceTagged(name) ==
    /\ Len(SamplesOf(name)) = 1
    /\ SamplesOf(name)[1].tags = FlowTags(opts)
    /\ SamplesOf(name)[1].tags["flow"] = opts.Entry
    /\ SamplesOf(name)[1].tags["runtime"] = opts.Runtime

C17_SuccessOnly ==
    (pc = "done" /\ hasState) =>
        /\ outcome.kind = "ok" =>
              /\ OnceTagged("external_js_iteration_duration")
              /\ OnceTagged("external_js_iterations")
        /\ outcome.kind \in {"timeout", "exec", "protocol"} =>
              /\ SamplesOf("external_js_iteration_duration") = <<>>
              /\ SamplesOf("external_js_iterations") = <<>>

(***************************************************************************)
(* The guest runner: the script Run hands to the runtime, from the start   *)
(* of the child to its exit.  Two texts of the script are modelled, the    *)
(* file js_runner.js and the text that reads the execution context.        *)
(***************************************************************************)
\* JavaScript values a flow can return that are no JSON values
Undefined == [t |-> "undefined"]
\* an object that refers to itself: JSON.stringify throws on it
Circular == [t |-> "circular"]

\* !v is false
Truthy(v) == v \notin {Undefined, Nil, Num(0), Str(""), Bool(FALSE)}
\* typeof v === "object"
TypeofObject(v) == v.t \in {"map", "array", "nil", "circular"}

\* result || {}
OrEmpty(v) == IF Truthy(v) THEN v ELSE EmptyMap
\* result && typeof result === "object" ? result : {}
SafeResult(v) == IF Truthy(v) /\ TypeofObject(v) THEN v ELSE EmptyMap

\* JSON.stringify on the values of the pool (numbers of one digit, strings
\* without escapes)
RECURSIVE Stringify(_), StringifyAll(_), StringifyMembers(_)
Stringify(v) ==
    CASE v.t = "nil"    -> "null"
      [] v.t = "number" -> Digits[v.v + 1]
      [] v.t = "string" -> Quote(v.v)
      [] v.t = "bool"   -> IF v.v THEN "true" ELSE "false"
      [] v.t = "array"  -> "[" \o StringifyAll(v.v) \o "]"
      [] v.t = "map"    -> "{" \o StringifyMembers(v.m) \o "}"

StringifyAll(a) ==
    IF a = <<>> THEN ""
    ELSE IF Len(a) = 1 THEN Stringify(Head(a))
    ELSE Stringify(Head(a)) \o "," \o StringifyAll(Tail(a))

StringifyMembers(m) ==
    IF DOMAIN m = {} THEN ""
    ELSE LET k == CHOOSE x \in DOMAIN m : TRUE
             rest == [x \in (DOMAIN m) \ {k} |-> m[x]]
         IN  Quote(k) \o ":" \o Stringify(m[k])
             \o (IF DOMAIN rest = {} THEN "" ELSE "," \o StringifyMembers(rest))

\* JSON.parse(text) does not throw
ParsesAsJson(text) ==
    \E r \in {ScanValue(text, SkipSpaces(text, 1))} :
        r.ok /\ SkipSpaces(text, r.next) > Len(text)

Runtimes == {"node", "deno", "bun"}
JsRunner == "js_runner.js"
ContextRunner == "unnamed/part_013"
Runners == {JsRunner, ContextRunner}

\* exec.CommandContext(ctx, name, args...) and cmd.Stdin of each runtime
Command(rt, sc, entry, payloadText, contextText) ==
    IF rt = "deno"
    THEN [name |-> rt, stdin |-> sc,
          args |-> <<"run", "--allow-all", "-", entry, payloadText, contextText>>]
    ELSE [name |-> rt, stdin |-> "",
          args |-> <<"-e", sc, entry, payloadText, contextText>>]

\* what the runtime shows the script: Deno.args are the arguments after the
\* script name "-"; process.argv is the path of the binary, then the
\* arguments after -e and its script
ScriptArgs(cmd) ==
    IF cmd.name = "deno" THEN SubSeq(cmd.args, 4, Len(cmd.args))
    ELSE <<cmd.name>> \o SubSeq(cmd.args, 3, Len(cmd.args))

ScriptOf(cmd) == IF cmd.name = "deno" THEN cmd.stdin ELSE cmd.args[2]

\* argv[i] with the index of JavaScript; undefined, which is falsy as the
\* empty string is, when there is no such element
ArgAt(argv, i) == IF i + 1 \in DOMAIN argv THEN argv[i + 1] ELSE ""

\* Deno.env.get(name); undefined when the variable is not set
EnvGet(env, name) == IF name \in DOMAIN env THEN env[name] ELSE ""

\* PARSE_ARGS: where each text of the script takes its three inputs from
ReadArgs(sc, rt, argv, env) ==
    IF sc = JsRunner
    THEN IF rt = "deno"
         THEN [entry |-> EnvGet(env, "XK6_EXTERNAL_JS_ENTRY"),
               payload |-> EnvGet(env, "XK6_EXTERNAL_JS_PAYLOAD"), context |-> ""]
         ELSE [entry |-> ArgAt(argv, 1), payload |-> ArgAt(argv, 2), context |-> ""]
    ELSE IF rt = "deno"
         THEN [entry |-> ArgAt(argv, 0), payload |-> ArgAt(argv, 1),
               context |-> ArgAt(argv, 2)]
         ELSE [entry |-> ArgAt(argv, 1), payload |-> ArgAt(argv, 2),
               context |-> ArgAt(argv, 3)]

\* the catch block with the exit code of success
FailedQuiet(g, msg) ==
    [g EXCEPT !.pc = "exited", !.errs = Append(@, "Error: " \o msg \o "\n"), !.code = 0]

\* the catch block: console.error("Error:", ...) and exit(1)
Failed(g, msg) ==
    [g EXCEPT !.pc = "exited", !.errs = Append(@, "Error: " \o msg \o "\n"), !.code = 1]

\* the entry paths, payload texts and context text Run sends
Entries == {"x.js", "", "x.node.js", "x.bun.cjs"}
PayloadTexts == {Stringify(Nil), Stringify(PayloadA)}
ContextText == "{\"vu\":{\"id\":0,\"iteration\":0}}"

\* opts.Env, appended to the environment of the child: nothing, or the
\* variables js_runner.js looks for under deno, set by the caller
ChildEnvs ==
    {<<>>, [XK6_EXTERNAL_JS_ENTRY |-> "x.js", XK6_EXTERNAL_JS_PAYLOAD |-> "oops"]}

\* what the module of the flow exports
Modules ==
    {m \in [self : BOOLEAN, default : BOOLEAN, handler : BOOLEAN,
            loads : {"require", "import", "none"}] : m.self => m.loads = "require"}

\* what import(fullPath) shows of a module: the namespace is never callable;
\* of a CommonJS module its default is module.exports
ImportView(m) ==
    [self |-> FALSE, handler |-> m.handler,
     default |-> IF m.loads = "require" THEN m.self ELSE m.default]

NoModule == [self |-> FALSE, default |-> FALSE, handler |-> FALSE, loads |-> "none"]

\* typeof of what the chain ends with when nothing is callable: the exports
\* object or the module namespace
TypeofFound(m) == "object"

Loaded(chosen, callable) == [chosen |-> chosen, callable |-> callable]
NothingCallable == Loaded("none", "none")

\* LOAD_EXPORT of js_runner.js: require(fullPath) as it is under node, else
\* flowModule.default || flowModule
LoadExportJs(rt, m) ==
    IF rt = "node" /\ m.loads = "require"
    THEN IF m.self THEN Loaded("module", "plain") ELSE NothingCallable
    ELSE IF ImportView(m).default THEN Loaded("default", "plain") ELSE NothingCallable

\* LOAD_EXPORT of the other text: under node with require the handler, then
\* the module itself, then its default; with import the handler, then the
\* default
LoadExportContext(rt, m) ==
    IF rt = "node" /\ m.loads = "require"
    THEN IF m.handler THEN Loaded("handler", "wrapped")
         ELSE IF m.self THEN Loaded("module", "plain")
         ELSE IF m.default THEN Loaded("default", "plain")
         ELSE NothingCallable
    ELSE IF ImportView(m).handler THEN Loaded("handler", "wrapped")
    ELSE IF ImportView(m).default THEN Loaded("default", "plain")
    ELSE NothingCallable

LoadExport(sc, rt, m) ==
    IF sc = JsRunner THEN LoadExportJs(rt, m) ELSE LoadExportContext(rt, m)

\* what the flow function does: it returns or resolves to a value, or it
\* throws or rejects
\* JSON.parse of a text that parses
JsonParse(text) == ScanValue(text, 1).v

\* BUILD_CONTEXT: what the flow function is called with. js_runner.js calls
\* flowFunction(payload, {env, logger}); the other text calls flowFunction(ctx)
\* with ctx.payload, ctx.vu and ctx.execution
NoContext == [payload |-> Undefined, vu |-> Undefined, execution |-> Undefined]
DefaultVu == Map([id |-> Num(0), iteration |-> Num(0), scenario |-> Str("")])
BuildContext(sc, payloadJson, execContextJson) ==
    IF sc = JsRunner
    THEN [payload |-> JsonParse(payloadJson), vu |-> Undefined, execution |-> Undefined]
    ELSE LET executionContext == IF execContextJson = "" THEN EmptyMap
                                 ELSE JsonParse(execContextJson)
         IN  [payload |-> JsonParse(payloadJson),
              vu |-> IF IsMap(executionContext) /\ Truthy(Get(executionContext, "vu"))
                     THEN Get(executionContext, "vu") ELSE DefaultVu,
              execution |-> executionContext]

Returned(v) == [throws |-> FALSE, v |-> v]
Thrown == [throws |-> TRUE, v |-> Undefined]
FlowOutcomes ==
    {Returned(v) : v \in {Undefined, Nil, Num(5), Num(0), Str("s"), Str(""), Bool(TRUE),
                          Bool(FALSE), Arr(<<Num(1)>>), PayloadA, EmptyMap, Circular}}
    \cup {Thrown}

\* the child at the first statement of the script
Started(cmd, sent, env) ==
    [pc |-> "start", script |-> ScriptOf(cmd), runtime |-> cmd.name, sent |-> sent,
     argv |-> ScriptArgs(cmd), env |-> env,
     entryPath |-> "", payloadJson |-> "", execContextJson |-> "",
     files |-> {}, fullPath |-> "", exists |-> FALSE, module |-> NoModule, chosen |-> "none",
     callable |-> "none", ctx |-> NoContext, returned |-> Undefined,
     result |-> Undefined,
     out |-> <<>>, errs |-> <<>>, code |-> 0 - 1]

\* main.go 172-198: the command and its environment are built and the child
\* starts the script
Launch ==
    /\ guest = NoGuest
    /\ \E rt \in Runtimes, sc \in Runners, entry \in Entries, p \in PayloadTexts,
          env \in ChildEnvs :
          guest' = Started(Command(rt, sc, entry, p, ContextText),
                           [entry |-> entry, payload |-> p, context |-> ContextText], env)
    /\ UNCHANGED <<runVars, hostVars, vuState, helpers, firedAt>>

\* PARSE_ARGS
ParseArgs ==
    /\ guest.pc = "start"
    /\ \E r \in {ReadArgs(guest.script, guest.runtime, guest.argv, guest.env)} :
          guest' =
            IF r.entry = "" THEN Failed(guest, "Missing entry path argument")
            ELSE IF r.payload = "" THEN Failed(guest, "Missing payload JSON argument")
            ELSE IF ~ParsesAsJson(r.payload) \/ (r.context # "" /\ ~ParsesAsJson(r.context))
            THEN Failed(guest, "SyntaxError")
            ELSE [guest EXCEPT !.pc = "parsed", !.entryPath = r.entry,
                               !.payloadJson = r.payload, !.execContextJson = r.context]
    /\ UNCHANGED <<runVars, hostVars, vuState, helpers, firedAt>>

\* process.cwd() / Deno.cwd() and path.join(cwd, entryPath)
Cwd == "/w"
Joined(entryPath) == Cwd \o "/" \o entryPath

\* the files the working directory can hold for an entry: none, the file of
\* that name, or a file of that name with ".js" added
Disks(entryPath) == {{}, {Joined(entryPath)}, {Joined(entryPath) \o ".js"}}

\* node and bun: ".js" is added unless the path ends in ".js" or ".ts"
NodePath(entryPath) ==
    LET fullPath == Joined(entryPath)
    IN  IF ~HasSuffix(fullPath, ".js") /\ ~HasSuffix(fullPath, ".ts")
        THEN fullPath \o ".js" ELSE fullPath

\* deno: the real path of the entry; js_runner.js then tries the entry with
\* ".js" and with ".ts"; at last the path under the working directory
DenoPath(sc, entryPath, files) ==
    IF Joined(entryPath) \in files THEN Joined(entryPath)
    ELSE IF sc = JsRunner /\ Joined(entryPath) \o ".js" \in files
    THEN Joined(entryPath) \o ".js"
    ELSE IF sc = JsRunner /\ Joined(entryPath) \o ".ts" \in files
    THEN Joined(entryPath) \o ".ts"
    ELSE Joined(entryPath)

FullPath(sc, rt, entryPath, files) ==
    IF rt = "deno" THEN DenoPath(sc, entryPath, files) ELSE NodePath(entryPath)

\* RESOLVE_PATH: under node and bun a file that does not exist is an error,
\* under deno the path falls back to one under the working directory
ResolvePath ==
    /\ guest.pc = "parsed"
    /\ \E files \in Disks(guest.entryPath) :
       \E fullPath \in {FullPath(guest.script, guest.runtime, guest.entryPath, files)} :
       \E g \in {[guest EXCEPT !.files = files, !.fullPath = fullPath,
                               !.exists = (fullPath \in files)]} :
          guest' = IF guest.runtime # "deno" /\ ~g.exists
                   THEN Failed(g, "Flow not found: " \o fullPath)
                   ELSE [g EXCEPT !.pc = "resolved"]
    /\ UNCHANGED <<runVars, hostVars, vuState, helpers, firedAt>>

\* LOAD_EXPORT: a module that cannot be loaded is an error; js_runner.js
\* goes on with what it found, the other text rejects what is no function
Import ==
    /\ guest.pc = "resolved"
    /\ \E m \in Modules :
       \E l \in {LoadExport(guest.script, guest.runtime, m)} :
          guest' =
            IF m.loads = "none" \/ ~guest.exists THEN Failed(guest, "Cannot find module")
            ELSE IF l.callable = "none" /\ guest.script = ContextRunner
            THEN Failed([guest EXCEPT !.module = m],
                        "Expected a function or handler export but got " \o TypeofFound(m))
            ELSE [guest EXCEPT !.pc = "imported", !.module = m,
                               !.chosen = l.chosen, !.callable = l.callable]
    /\ UNCHANGED <<runVars, hostVars, vuState, helpers, firedAt>>

\* CALL_FLOW: await flowFunction(...)
Invoke ==
    /\ guest.pc = "imported"
    /\ \E c \in {BuildContext(guest.script, guest.payloadJson, guest.execContextJson)} :
       \E o \in FlowOutcomes \cup {Returned(c.payload)} :
          guest' =
            IF guest.callable = "none" THEN Failed(guest, "TypeError: flowFunction is not a function")
            ELSE IF o.throws THEN Failed(guest, "boom")
            ELSE [guest EXCEPT !.pc = "called", !.ctx = c, !.returned = o.v,
                               !.result = IF guest.callable = "wrapped"
                                          THEN SafeResult(o.v) ELSE o.v]
    /\ UNCHANGED <<runVars, hostVars, vuState, helpers, firedAt>>

\* EMIT_RESULT, the three console.log calls
EmitStart ==
    /\ guest.pc = "called"
    /\ guest' = [guest EXCEPT !.pc = "started", !.out = Append(@, StartLine)]
    /\ UNCHANGED <<runVars, hostVars, vuState, helpers, firedAt>>

EmitJson ==
    /\ guest.pc = "started"
    /\ guest' = IF OrEmpty(guest.result) = Circular
                THEN Failed(guest, "TypeError: Converting circular structure to JSON")
                ELSE [guest EXCEPT !.pc = "printed",
                                   !.out = Append(@, Stringify(OrEmpty(guest.result)) \o "\n")]
    /\ UNCHANGED <<runVars, hostVars, vuState, helpers, firedAt>>

EmitEnd ==
    /\ guest.pc = "printed"
    /\ guest' = [guest EXCEPT !.pc = "ended", !.out = Append(@, EndLine)]
    /\ UNCHANGED <<runVars, hostVars, vuState, helpers, firedAt>>

\* Deno.exit(0) / process.exit(0)
Exit ==
    /\ guest.pc = "ended"
    /\ guest' = [guest EXCEPT !.pc = "exited", !.code = 0]
    /\ UNCHANGED <<runVars, hostVars, vuState, helpers, firedAt>>

NextRunner ==
    \/ Launch \/ ParseArgs \/ ResolvePath \/ Import \/ Invoke
    \/ EmitStart \/ EmitJson \/ EmitEnd \/ Exit

SpecRunner == Init /\ [][NextRunner]_vars

(***************************************************************************)
(* C18: under each runtime the runner reads the entry path, the payload    *)
(* JSON and the execution-context JSON from the place where Run put them,  *)
(* so a call with an entry path and a serialized payload never fails in    *)
(* PARSE_ARGS for a missing argument.                                      *)
(***************************************************************************)
ArgsParsed == guest.pc \notin {"none", "start"}

MissingArgument ==
    /\ guest.pc = "exited" /\ guest.errs # <<>>
    /\ \/ Contains(guest.errs[1], "Missing entry path argument")
       \/ Contains(guest.errs[1], "Missing payload JSON argument")

C18_SameChannel ==
    (ArgsParsed /\ guest.sent.entry # "") =>
        /\ ~MissingArgument
        /\ guest.pc # "exited" =>
              /\ guest.entryPath = guest.sent.entry
              /\ guest.payloadJson = guest.sent.payload
              /\ guest.execContextJson = guest.sent.context

(***************************************************************************)
(* C19: the steps of the runner are taken once and in order; the child     *)
(* exits with code 0 only after it has printed the start marker, one JSON  *)
(* text and the end marker, in that order and once; a failure in any step  *)
(* writes the error to standard error and exits with code 1; there is no   *)
(* other exit code.                                                        *)
(***************************************************************************)
StepOrder ==
    <<"none", "start", "parsed", "resolved", "imported", "called", "started",
      "printed", "ended", "exited">>

Rank(p) == CHOOSE i \in DOMAIN StepOrder : StepOrder[i] = p

EmittedOnce ==
    /\ Len(guest.out) = 3
    /\ guest.out[1] = StartLine /\ guest.out[3] = EndLine
    /\ ParsesAsJson(guest.out[2])

ExitedRight ==
    guest.pc # "none" =>
        /\ guest.pc # "exited" => guest.code = 0 - 1
        /\ guest.pc = "exited" =>
              /\ guest.code \in {0, 1}
              /\ guest.code = 0 => EmittedOnce /\ guest.errs = <<>>
              /\ guest.code = 1 =>
                    /\ Len(guest.errs) = 1 /\ HasPrefix(guest.errs[1], "Error:")
                    /\ EndLine \notin {guest.out[i] : i \in DOMAIN guest.out}

C20_ObjectText ==
    (guest.pc = "exited" /\ guest.code = 0) =>
        /\ IsObjectText(guest.out[2])
        /\ extractResult(Concat(guest.out)).err = ""

(***************************************************************************)
(* C21: LOAD_EXPORT takes the first callable of the default export, the    *)
(* handler export and the module itself, in this order and the same under  *)
(* every runtime: a module with a callable default and a callable handler  *)
(* runs the default.                                                       *)
(***************************************************************************)
ExportLoaded ==
    guest.pc \in {"imported", "called", "started", "printed", "ended"}

C21_DefaultFirst ==
    ExportLoaded =>
        guest.chosen = IF guest.module.default THEN "default"
                       ELSE IF guest.module.handler THEN "handler"
                       ELSE IF guest.module.self THEN "module"
                       ELSE "none"

(***************************************************************************)
(* One call from ext.run to its return, with the runner in the child.      *)
(***************************************************************************)
\* getExecutionContext: without a VU state the unit of zeros, else the id,
\* the iteration and the scenario tag of the state
getExecutionContext(has, st) ==
    IF ~has
    THEN Map([vu |-> Map([id |-> Num(0), iteration |-> Num(0)])])
    ELSE Map([vu |-> Map([id |-> Num(st.VUID), iteration |-> Num(st.Iteration),
                          scenario |-> Str(st.scenario)])])

MaxIteration == 1

\* a metrics entry a flow can hand back inside its result
EntryA == Map([name |-> Str("m"), type |-> Str("counter"), value |-> Num(1)])

\* second arguments of ext.run: payloads of every JSON kind, alone or under
\* the payload key of an options object
Payloads ==
    {Nil, Num(5), Bool(FALSE), Arr(<<Num(1)>>), PayloadA,
     Map([a |-> Num(1), __k6_metrics__ |-> Arr(<<EntryA>>)])}
CallArgs == Payloads \cup {Map([payload |-> PayloadA]), Map([payload |-> Num(5)])}

CallPaths == {"x.js", "x.deno.ts"}

CallRunner ==
    /\ pc = "idle" /\ guest = NoGuest
    /\ flowPath' \in CallPaths
    /\ arg' \in CallArgs
    /\ hasState' \in BOOLEAN
    /\ pc' = "called"
    /\ UNCHANGED <<opts, ctxErr, hasDeadline, proc, exitCode, writes, output,
                   err, spawns, samples, result, outcome>>
    /\ UNCHANGED <<hostVars, guest, vuState, helpers, firedAt>>

\* k6 starts the next iteration of the VU
NextIteration ==
    /\ pc = "idle" /\ vuState.Iteration < MaxIteration
    /\ vuState' = [vuState EXCEPT !.Iteration = @ + 1]
    /\ UNCHANGED <<runVars, hostVars, guest, helpers, firedAt>>

\* lines 146-198: the child starts with the command Run built
StartChild ==
    /\ pc = "waiting" /\ proc = "running" /\ guest = NoGuest
    /\ \E sc \in Runners :
       \E p \in {Stringify(opts.Payload)},
          c \in {Stringify(getExecutionContext(hasState, vuState))} :
          guest' = Started(Command(opts.Runtime, sc, opts.Entry, p, c),
                           [entry |-> opts.Entry, payload |-> p, context |-> c],
                           opts.Env)
    /\ UNCHANGED <<runVars, hostVars, vuState, helpers, firedAt>>

\* the child has ended: what it wrote to stdout and stderr is in the buffer
\* of CombinedOutput
ChildExit ==
    /\ pc = "waiting" /\ proc = "running" /\ guest.pc = "exited"
    /\ writes' = guest.out \o guest.errs
    /\ exitCode' = guest.code
    /\ proc' = "exited"
    /\ UNCHANGED <<pc, flowPath, arg, hasState, opts, ctxErr, hasDeadline, output,
                   err, spawns, samples, result, outcome>>
    /\ UNCHANGED <<hostVars, guest, vuState, helpers, firedAt>>

NextCall ==
    \/ CallRunner \/ NextIteration \/ Parse \/ SelectRuntime \/ Prepare \/ Spawn
    \/ StartChild \/ ParseArgs \/ ResolvePath \/ Import \/ Invoke
    \/ EmitStart \/ EmitJson \/ EmitEnd \/ Exit \/ ChildExit
    \/ WaitReturn \/ Settle \/ Finish \/ MergeEntry \/ RecordChecks \/ Return

SpecCall == Init /\ [][NextCall]_vars

(***************************************************************************)
(* C22: when the loaded module yields nothing callable, the runner fails   *)
(* before the flow is invoked, exits with 1 and its message names the type *)
(* it found; Run returns an execution failure that contains the message.   *)
(***************************************************************************)
NothingFound ==
    /\ guest.pc = "exited"
    /\ guest.module.loads # "none" /\ guest.callable = "none"

C22_NamesType ==
    NothingFound =>
        /\ guest.code = 1
        /\ Contains(Concat(guest.errs), "but got " \o TypeofFound(guest.module))
        /\ pc = "done" =>
              /\ outcome.kind = "exec"
              /\ Contains(outcome.msg, Concat(guest.errs))

(***************************************************************************)
(* C23: in every call the execution context the flow function sees         *)
(* (context.execution: vu id, iteration, scenario) is the one Run built    *)
(* from the state of the calling VU right before that call.                *)
(***************************************************************************)
FlowCalled == guest.pc # "none" /\ guest.ctx # NoContext

C23_ContextSeen ==
    FlowCalled => guest.ctx.execution = getExecutionContext(hasState, vuState)

(***************************************************************************)
(* C24: round trip. For every payload P that can be serialized, a flow     *)
(* that returns the payload it was given makes Run return a result equal   *)
(* to P.                                                                   *)
(***************************************************************************)
Echoed == FlowCalled /\ guest.returned = guest.ctx.payload

C24_RoundTrip ==
    (pc = "done" /\ Echoed) => (outcome.kind = "ok" /\ result = opts.Payload)

(***************************************************************************)
(* helpers run(): the module-level collectors and the invocations of       *)
(* wrapped functions in one process. A collector is named by the           *)
(* invocation that made it; 0 is null. Each action is one synchronous      *)
(* stretch of JavaScript between two awaits.                               *)
(***************************************************************************)
Running(h) == {i \in Invocations : h.inv[i].pc = "running"}
Entry(i, api) == [by |-> i, k |-> Len(helpers.inv[i].emitted) + 1, api |-> api]

\* try: the collectors are made and swapped in
SwapIn(h, i) ==
    [h EXCEPT !.inv[i].pc = "running",
              !.inv[i].prevMetrics = h.currentMetrics,
              !.inv[i].prevChecks = h.currentChecks,
              !.currentMetrics = i, !.currentChecks = i]

\* a wrapper without its finally block
NotRestored(h, i) == h

\* finally: currentMetrics = prevMetrics; currentChecks = prevChecks
Restored(h, i) ==
    [h EXCEPT !.currentMetrics = h.inv[i].prevMetrics,
              !.currentChecks = h.inv[i].prevChecks]

\* the user function has thrown, or a call of the API inside it has
Rethrown(h, i, api) ==
    [Restored(h, i) EXCEPT !.inv[i].pc = "threw", !.inv[i].apiThrew = api]

\* the caller awaits each wrapped function before it calls the next
StartAlone(i) ==
    /\ Running(helpers) = {} /\ helpers.inv[i].pc = "idle"
    /\ helpers' = SwapIn(helpers, i)
    /\ UNCHANGED <<runVars, hostVars, guest, vuState, firedAt>>

\* the caller starts a wrapped function while others are suspended
StartRun(i) ==
    /\ helpers.inv[i].pc = "idle"
    /\ helpers' = SwapIn(helpers, i)
    /\ UNCHANGED <<runVars, hostVars, guest, vuState, firedAt>>

\* metrics.counter(name) and its siblings: a metric bound to the current
\* collector, or the error when there is none
GetMetric(i) ==
    /\ helpers.inv[i].pc = "running"
    /\ helpers' = IF helpers.currentMetrics = 0 THEN Rethrown(helpers, i, TRUE)
                  ELSE [helpers EXCEPT !.inv[i].handle = helpers.currentMetrics]
    /\ UNCHANGED <<runVars, hostVars, guest, vuState, firedAt>>

\* counter.add(value): this.collector._recordCounter pushes to the
\* collector the metric was made with
Add(i) ==
    /\ helpers.inv[i].pc = "running" /\ helpers.inv[i].handle # 0
    /\ Len(helpers.inv[i].emitted) < MaxEmits
    /\ \E e \in {Entry(i, "metric")} :
          helpers' = [helpers EXCEPT !.metrics[helpers.inv[i].handle] = Append(@, e),
                                     !.inv[i].emitted = Append(@, e)]
    /\ UNCHANGED <<runVars, hostVars, guest, vuState, firedAt>>

\* checks.check(name, condition)
Check(i) ==
    /\ helpers.inv[i].pc = "running"
    /\ Len(helpers.inv[i].emitted) < MaxEmits
    /\ \E e \in {Entry(i, "check")} :
          helpers' = IF helpers.currentChecks = 0 THEN Rethrown(helpers, i, TRUE)
                     ELSE [helpers EXCEPT !.checks[helpers.currentChecks] = Append(@, e),
                                          !.inv[i].emitted = Append(@, e)]
    /\ UNCHANGED <<runVars, hostVars, guest, vuState, firedAt>>

\* the user function has returned: the arrays of the collectors are hung
\* on the result when they are not empty, then the finally block
Complete(i) ==
    /\ helpers.inv[i].pc = "running"
    /\ helpers' = [Restored(helpers, i) EXCEPT
                      !.inv[i].pc = "returned",
                      !.inv[i].hasMetrics = (helpers.metrics[i] # <<>>),
                      !.inv[i].hasChecks = (helpers.checks[i] # <<>>)]
    /\ UNCHANGED <<runVars, hostVars, guest, vuState, firedAt>>

\* the user function has thrown
Throw(i) ==
    /\ helpers.inv[i].pc = "running"
    /\ helpers' = Rethrown(helpers, i, FALSE)
    /\ UNCHANGED <<runVars, hostVars, guest, vuState, firedAt>>

\* a call of the API from code that is in no invocation
TopLevel ==
    /\ Running(helpers) = {} /\ helpers.top = "none"
    /\ \E api \in {"currentMetrics", "currentChecks"} :
          helpers' = [helpers EXCEPT !.top = IF helpers[api] = 0 THEN "threw"
                                             ELSE "recorded"]
    /\ UNCHANGED <<runVars, hostVars, guest, vuState, firedAt>>

\* safeResult.__k6_metrics__ and safeResult.__k6_checks__ of a result: the
\* arrays of the collectors themselves
Carried(i) ==
    [metrics |-> IF helpers.inv[i].hasMetrics THEN helpers.metrics[i] ELSE <<>>,
     checks  |-> IF helpers.inv[i].hasChecks THEN helpers.checks[i] ELSE <<>>]

NextHelpers ==
    \/ \E i \in Invocations :
          StartAlone(i) \/ GetMetric(i) \/ Add(i) \/ Check(i) \/ Complete(i) \/ Throw(i)
    \/ TopLevel

SpecHelpers == Init /\ [][NextHelpers]_vars

NextOverlap ==
    \E i \in Invocations :
        StartRun(i) \/ GetMetric(i) \/ Add(i) \/ Check(i) \/ Complete(i) \/ Throw(i)

SpecOverlap == Init /\ [][NextOverlap]_vars

(***************************************************************************)
(* C25: invocations that do not overlap. The result of each carries the    *)
(* entries recorded through the API during it, in the order of recording;  *)
(* after each, returned or thrown, the current collectors are what they    *)
(* were before it (none), so no entry leaks into a later invocation and a  *)
(* call of the API outside any invocation throws.                          *)
(***************************************************************************)
Recorded(i, api) == SelectSeq(helpers.inv[i].emitted, LAMBDA e : e.api = api)

C25_Sequential ==
    /\ \A i \in Invocations :
          helpers.inv[i].pc = "returned" =>
              /\ Carried(i).metrics = Recorded(i, "metric")
              /\ Carried(i).checks = Recorded(i, "check")
    /\ Running(helpers) = {} =>
          helpers.currentMetrics = 0 /\ helpers.currentChecks = 0
    /\ helpers.top # "recorded"

C25_Witness ==
    /\ helpers.inv[1].pc = "threw" /\ helpers.inv[1].emitted # <<>>
    /\ helpers.inv[2].pc = "returned"
    /\ Len(Carried(2).metrics) = 1 /\ Len(Carried(2).checks) = 1
    /\ helpers.top = "threw"

(***************************************************************************)
(* C26: invocations that overlap. In every interleaving each entry is      *)
(* appended to the buffer of the invocation whose function emitted it, no  *)
(* call of the API inside a running invocation throws, and when all have   *)
(* completed the current collector is none.                                *)
(***************************************************************************)
C26_Overlapping ==
    /\ \A c \in Invocations :
          /\ \A n \in DOMAIN helpers.metrics[c] : helpers.metrics[c][n].by = c
          /\ \A n \in DOMAIN helpers.checks[c] : helpers.checks[c][n].by = c
    /\ \A i \in Invocations : ~helpers.inv[i].apiThrew
    /\ (\A i \in Invocations : helpers.inv[i].pc \in {"returned", "threw"}) =>
          helpers.currentMetrics = 0 /\ helpers.currentChecks = 0

(***************************************************************************)
(* C27: a call whose child exited with code 0 and had printed a            *)
(* well-formed result when the deadline fired is never reported as a       *)
(* timeout: Run returns the timeout failure only if the child had not      *)
(* completed when the timer fired.                                         *)
(***************************************************************************)
CompletedFirst ==
    /\ firedAt = "exited" /\ exitCode = 0
    /\ extractResult(Concat(writes)).err = ""

C27_NoLateTimeout ==
    (pc = "done" /\ CompletedFirst) => outcome.kind # "timeout"

(***************************************************************************)
(* Flows that name a metric "checks". The registry the module is built     *)
(* with comes from k6: it holds the metrics of this module and, when k6    *)
(* has registered its built-in metrics in it, the rate metric checks.      *)
(***************************************************************************)
EntryChecks == "{\"type\":\"counter\",\"name\":\"checks\",\"value\":1}"
EntryChecksRate == "{\"type\":\"rate\",\"name\":\"checks\",\"value\":1}"

ChecksNameDocs ==
    {Doc(WithMetrics("[" \o e \o "]") \o WithChecks(ChecksABC)) :
        e \in {EntryChecks, EntryChecksRate, EntryCounter}}
    \cup {Doc(WithMetrics("[" \o EntryChecks \o "]")), Doc(WithChecks(ChecksABC))}

WithK6Checks == Extend(Builtins, "checks", "rate")

InitChecksName ==
    /\ Idle
    /\ registry \in {Builtins, WithK6Checks}
    /\ customMetrics = <<>> /\ todo = <<>> /\ peer = NoPeer /\ guest = NoGuest
    /\ vuState = FirstIteration /\ helpers = Imported /\ firedAt = ""

GuestChecksName ==
    /\ pc = "waiting" /\ proc = "running"
    /\ \E d \in ChecksNameDocs :
          /\ writes' = <<StartLine, d, EndLine>>
          /\ exitCode' = 0
    /\ proc' = "exited"
    /\ UNCHANGED <<pc, flowPath, arg, hasState, opts, ctxErr, hasDeadline, output,
                   err, spawns, samples, result, outcome>>
    /\ UNCHANGED <<hostVars, guest, vuState, helpers, firedAt>>

NextChecksName ==
    \/ CallFlow \/ Parse \/ SelectRuntime \/ Prepare \/ Spawn \/ GuestChecksName
    \/ WaitReturn \/ Settle \/ Finish \/ MergeEntry \/ RecordChecks \/ Return

SpecChecksName == InitChecksName /\ [][NextChecksName]_vars

(***************************************************************************)
(* C28: every check sample is pushed to a metric of kind rate, also after  *)
(* the dispatcher has processed, in this call or an earlier one, a         *)
(* telemetry entry named checks of another kind.                           *)
(***************************************************************************)
IsCheckSample(x) == "kind" \in DOMAIN x /\ "check" \in DOMAIN x.tags

Failures == {"caller", "timeout", "exec", "protocol"}

CacheGrows ==
    \A k \in DOMAIN customMetrics :
        k \in DOMAIN customMetrics' /\ customMetrics'[k] = customMetrics[k]

C29_FailureFrame ==
    [][/\ CacheGrows
       /\ customMetrics' # customMetrics =>
             pc = "merging" /\ (pc' = "done" => outcome'.kind \notin Failures)
       /\ (pc' = "done" /\ outcome'.kind \in Failures) =>
             /\ customMetrics' = customMetrics
             /\ \A n \in DOMAIN samples' : "kind" \notin DOMAIN samples'[n]
       /\ pc' = "idle" => Idle']_vars

C29_Witness ==
    /\ pc = "done" /\ outcome.kind = "protocol"
    /\ Cardinality(DOMAIN customMetrics) > 1

(***************************************************************************)
(* C30: the selector of the runtime and the resolution of the module agree *)
(* on file names. For every entry whose suffix the selector recognises     *)
(* (.node, .deno or .bun followed by .js, .ts, .mjs or .cjs) the runner    *)
(* under node and bun resolves the file of exactly that name under the     *)
(* working directory: a file that exists under that name is never reported *)
(* as not found.                                                           *)
(***************************************************************************)
Resolving ==
    /\ guest.pc \notin {"none", "start", "parsed"}
    /\ guest.runtime \in {"node", "bun"}
    /\ detectRuntimeFromFilename(guest.entryPath) # ""
    /\ Joined(guest.entryPath) \in guest.files

C30_SameFile ==
    Resolving =>
        /\ guest.fullPath = Joined(guest.entryPath)
        /\ ~Contains(Concat(guest.errs), "Flow not found")

====
